---- MODULE Spec2Model ----
(***************************************************************************)
(* A model of plane-tui: the command registry, the context manager's       *)
(* navigation stack, the argument parser and the engine's dispatch loop.   *)
(* Go strings that the program only compares are TLA+ strings; Go maps are *)
(* functions whose DOMAIN is the set of keys present.                      *)
(***************************************************************************)
EXTENDS Integers, Sequences, FiniteSets, TLC

VARIABLES
    contexts,    \* CommandRegistry.contexts : name -> ContextSpec
    aliases,     \* CommandRegistry.aliases  : alias -> canonical context name
    commands,    \* CommandRegistry.commands : context -> key -> CommandEntry
    stack,       \* ContextManager.stack     : sequence of ExecutionContext
    last,        \* history: the operation performed last, its inputs and outcome
    registered,  \* history: every CommandEntry ever handed to RegisterCommand
    live,        \* history: entries none of whose keys was overwritten or removed since
    middleware,  \* Engine.middleware : the interceptors, outermost first
    pc,          \* Engine.Run: "setup" before it is called, "running", "stopped"
    mu,          \* the sync.RWMutex of the registry, the context manager, the task
                 \* manager and the engine: holder, readers, writers waiting
    threads,     \* the goroutines calling into the library: the call each is in
                 \* and the steps it has left
    tasks,       \* TaskManager.tasks : id -> the TaskHandle the table points to
    handles,     \* the *TaskHandle values callers were handed
    settings,    \* Engine.promptBase, Engine.outputWriter, TaskManager.output
    tuiContexts, \* package tui (v1), contexts : name -> the names of its commands
    currentCtx   \* package tui (v1), currentCtx

vars == <<contexts, aliases, commands, stack, last, registered, live, middleware, pc,
          mu, threads, tasks, handles, settings, tuiContexts, currentCtx>>
regVars == <<contexts, aliases, commands, registered, live>>
engVars == <<middleware, pc>>
tuiVars == <<tuiContexts, currentCtx>>
concVars == <<mu, threads, tasks, handles, settings, tuiVars>>

----------------------------------------------------------------------------
\* Bounds of the model.

\* Push is offered only while the stack is shorter than this.
MaxDepth == 3

\* Middleware is appended only while the chain is shorter than this.
MaxMiddleware == 2

\* Parse is given token lists of at most this many tokens.
MaxTokens == 3

\* The number of goroutines calling into the library at the same time.
MaxThreads == 2

\* The number of tasks spawned.
MaxTasks == 1

----------------------------------------------------------------------------
\* Go maps.

EmptyMap == <<>>
MapHas(m, k) == k \in DOMAIN m
MapPut(m, k, v) == [x \in (DOMAIN m) \cup {k} |-> IF x = k THEN v ELSE m[x]]
MapDel(m, k) == [x \in (DOMAIN m) \ {k} |-> m[x]]

\* Go's nil payload.
Nil == "nil"
Payloads == {Nil, "p1"}

----------------------------------------------------------------------------
\* Strings the parser takes apart. A token is a TLA+ string where the program
\* only compares it; Chars gives its bytes, which is what the parser works on.

Chars(t) ==
    CASE t = "--count" -> <<"-", "-", "c", "o", "u", "n", "t">>
      [] t = "--count=3" -> <<"-", "-", "c", "o", "u", "n", "t", "=", "3">>
      [] t = "--count=x" -> <<"-", "-", "c", "o", "u", "n", "t", "=", "x">>
      [] t = "db" -> <<"d", "b">>
      [] t = "count" -> <<"c", "o", "u", "n", "t">>
      [] t = "--verbose" -> <<"-", "-", "v", "e", "r", "b", "o", "s", "e">>
      [] t = "verbose" -> <<"v", "e", "r", "b", "o", "s", "e">>
      [] t = "-c" -> <<"-", "c">>
      [] t = "-v" -> <<"-", "v">>
      [] t = "-z" -> <<"-", "z">>
      [] t = "c" -> <<"c">>
      [] t = "v" -> <<"v">>
      [] t = "-" -> <<"-">>
      [] t = "--" -> <<"-", "-">>
      [] t = "3" -> <<"3">>
      [] t = "12" -> <<"1", "2">>
      [] t = "-3" -> <<"-", "3">>
      [] t = "x" -> <<"x">>
      [] t = "web" -> <<"w", "e", "b">>
      [] t = "name" -> <<"n", "a", "m", "e">>
      [] t = "secret" -> <<"s", "e", "c", "r", "e", "t">>
      [] t = "app" -> <<"a", "p", "p">>
      [] t = "> " -> <<">", " ">>
      [] t = "{base}" -> <<"{", "b", "a", "s", "e", "}">>
      [] t = "{context}" -> <<"{", "c", "o", "n", "t", "e", "x", "t", "}">>
      [] t = "{base}[{context}] " ->
            <<"{", "b", "a", "s", "e", "}", "[",
              "{", "c", "o", "n", "t", "e", "x", "t", "}", "]", " ">>
      [] t = "{context}:{base}{context}" ->
            <<"{", "c", "o", "n", "t", "e", "x", "t", "}", ":",
              "{", "b", "a", "s", "e", "}",
              "{", "c", "o", "n", "t", "e", "x", "t", "}">>
      [] t = "help" -> <<"h", "e", "l", "p">>
      [] t = "tasks" -> <<"t", "a", "s", "k", "s">>
      [] t = "list" -> <<"l", "i", "s", "t">>
      [] t = "show" -> <<"s", "h", "o", "w">>
      [] t = "servers" -> <<"s", "e", "r", "v", "e", "r", "s">>
      [] t = "debug" -> <<"d", "e", "b", "u", "g">>
      [] t = "pipe" -> <<"p", "i", "p", "e">>
      [] t = "--secret" -> <<"-", "-", "s", "e", "c", "r", "e", "t">>
      [] t = "" -> <<>>

CharsOf(tokens) == [i \in 1..Len(tokens) |-> Chars(tokens[i])]

\* strings.HasPrefix
HasPrefix(s, prefix) ==
    Len(s) >= Len(prefix) /\ SubSeq(s, 1, Len(prefix)) = prefix

\* strings.TrimPrefix
TrimPrefix(s, prefix) ==
    IF HasPrefix(s, prefix) THEN SubSeq(s, Len(prefix) + 1, Len(s)) ELSE s

\* The order of the bytes of lower-case names, and Go's < on such strings.
Letters == <<"a", "b", "c", "d", "e", "f", "g", "h", "i", "j", "k", "l", "m", "n", "o",
             "p", "q", "r", "s", "t", "u", "v", "w", "x", "y", "z">>
Rank(c) == CHOOSE i \in 1..Len(Letters) : Letters[i] = c

RECURSIVE Less(_, _)
Less(a, b) ==
    IF Len(b) = 0 THEN FALSE
    ELSE IF Len(a) = 0 THEN TRUE
    ELSE IF a[1] # b[1] THEN Rank(a[1]) < Rank(b[1])
    ELSE Less(Tail(a), Tail(b))

\* A replacement of the first occurrence only.
RECURSIVE ReplaceFirst(_, _, _)
ReplaceFirst(s, old, new) ==
    IF Len(s) < Len(old) THEN s
    ELSE IF SubSeq(s, 1, Len(old)) = old
    THEN new \o SubSeq(s, Len(old) + 1, Len(s))
    ELSE <<s[1]>> \o ReplaceFirst(Tail(s), old, new)

\* strings.ReplaceAll(s, old, new) for a non-empty old: the non-overlapping
\* occurrences of old, found from the left, replaced by new.
RECURSIVE ReplaceAll(_, _, _)
ReplaceAll(s, old, new) ==
    IF Len(s) < Len(old) THEN s
    ELSE IF SubSeq(s, 1, Len(old)) = old
    THEN new \o ReplaceAll(SubSeq(s, Len(old) + 1, Len(s)), old, new)
    ELSE <<s[1]>> \o ReplaceAll(Tail(s), old, new)

\* strings.Contains(s, "=")
ContainsEq(s) == \E i \in 1..Len(s) : s[i] = "="

\* strings.SplitN(s, "=", 2)[1]: what follows the first "=".
AfterEq(s) ==
    LET first == CHOOSE i \in 1..Len(s) : s[i] = "=" /\ \A j \in 1..(i - 1) : s[j] # "="
    IN  SubSeq(s, first + 1, Len(s))

----------------------------------------------------------------------------
\* ArgsParser: typed values and casting.

ArgTypeString == "string"
ArgTypeInt == "int"
ArgTypeBool == "bool"
ArgTypeEnum == "enum"

\* A value of a ValueSet: its dynamic Go type and the value.
StrVal(cs) == [type |-> "string", val |-> cs]
IntVal(n) == [type |-> "int", val |-> n]
BoolVal(b) == [type |-> "bool", val |-> b]
ListVal(l) == [type |-> "[]string", val |-> l]

Digits == {"0", "1", "2", "3", "4", "5", "6", "7", "8", "9"}
DigitVal(d) ==
    CASE d = "0" -> 0 [] d = "1" -> 1 [] d = "2" -> 2 [] d = "3" -> 3 [] d = "4" -> 4
      [] d = "5" -> 5 [] d = "6" -> 6 [] d = "7" -> 7 [] d = "8" -> 8 [] d = "9" -> 9

RECURSIVE DecimalVal(_)
DecimalVal(ds) ==
    IF Len(ds) = 0 THEN 0
    ELSE 10 * DecimalVal(SubSeq(ds, 1, Len(ds) - 1)) + DigitVal(ds[Len(ds)])

\* strconv.Atoi: an optional sign, then one or more decimal digits.
Atoi(s) ==
    LET signed == Len(s) > 0 /\ s[1] \in {"+", "-"}
        ds == IF signed THEN SubSeq(s, 2, Len(s)) ELSE s
    IN  IF Len(ds) = 0 \/ \E i \in 1..Len(ds) : ds[i] \notin Digits
        THEN [ok |-> FALSE, val |-> 0]
        ELSE [ok |-> TRUE,
              val |-> IF signed /\ s[1] = "-" THEN 0 - DecimalVal(ds) ELSE DecimalVal(ds)]

\* strconv.ParseBool
TrueLiterals == {<<"1">>, <<"t">>, <<"T">>, <<"t", "r", "u", "e">>,
                 <<"T", "R", "U", "E">>, <<"T", "r", "u", "e">>}
FalseLiterals == {<<"0">>, <<"f">>, <<"F">>, <<"f", "a", "l", "s", "e">>,
                  <<"F", "A", "L", "S", "E">>, <<"F", "a", "l", "s", "e">>}
ParseBool(s) ==
    IF s \in TrueLiterals THEN [ok |-> TRUE, val |-> TRUE]
    ELSE IF s \in FalseLiterals THEN [ok |-> TRUE, val |-> FALSE]
    ELSE [ok |-> FALSE, val |-> FALSE]

NoValue == [type |-> "nil", val |-> Nil]

\* castValue: the typed value of raw for the kind, or the error. The kinds
\* float, duration and json are declared by no spec of this model and have no
\* arm here; any other kind falls to the default arm of the switch.
CastValue(kind, raw, enum) ==
    CASE kind \in {ArgTypeString, ""} -> [err |-> "", val |-> StrVal(raw)]
      [] kind = ArgTypeInt ->
            IF Atoi(raw).ok THEN [err |-> "", val |-> IntVal(Atoi(raw).val)]
            ELSE [err |-> "strconv.Atoi: invalid syntax", val |-> NoValue]
      [] kind = ArgTypeBool ->
            IF ParseBool(raw).ok THEN [err |-> "", val |-> BoolVal(ParseBool(raw).val)]
            ELSE [err |-> "strconv.ParseBool: invalid syntax", val |-> NoValue]
      [] kind = ArgTypeEnum ->
            IF enum = <<>> \/ \E i \in 1..Len(enum) : enum[i] = raw
            THEN [err |-> "", val |-> StrVal(raw)]
            ELSE [err |-> "value not in enum", val |-> NoValue]
      [] kind \notin {ArgTypeString, "", ArgTypeInt, ArgTypeBool, ArgTypeEnum,
                      "float", "duration", "json"} ->
            [err |-> "", val |-> StrVal(raw)]

----------------------------------------------------------------------------
\* ArgsParser: the scan.

\* buildFlagIndex: name -> FlagSpec, a later flag of the same name replacing an earlier.
RECURSIVE BuildFlagIndex(_)
BuildFlagIndex(flags) ==
    IF Len(flags) = 0 THEN EmptyMap
    ELSE MapPut(BuildFlagIndex(SubSeq(flags, 1, Len(flags) - 1)),
                flags[Len(flags)].Name, flags[Len(flags)])

\* resolveShorthand: the long name of the first flag with this shorthand.
\* A resolveShorthand that hands back the shorthand as the flag's name.
ResolveShorthandKeepsAlias(alias, flags) ==
    [ok |-> \E i \in 1..Len(flags) : flags[i].Shorthand = alias, name |-> alias]

ResolveShorthand(alias, flags) ==
    IF \E i \in 1..Len(flags) : flags[i].Shorthand = alias
    THEN [ok |-> TRUE,
          name |-> flags[CHOOSE i \in 1..Len(flags) :
                            /\ flags[i].Shorthand = alias
                            /\ \A j \in 1..(i - 1) : flags[j].Shorthand # alias].Name]
    ELSE [ok |-> FALSE, name |-> <<>>]

\* A consumeFlagValue in which a bare boolean flag takes the following token.
ConsumeFlagValueBoolTakesNext(name, raw, pos, flagDefs) ==
    IF ~MapHas(flagDefs, name)
    THEN [err |-> "unknown flag", val |-> NoValue, consumed |-> 0]
    ELSE IF flagDefs[name].Type = ArgTypeBool
    THEN [err |-> "", val |-> BoolVal(TRUE), consumed |-> IF pos + 1 > Len(raw) THEN 1 ELSE 2]
    ELSE IF pos + 1 > Len(raw)
    THEN [err |-> "flag requires a value", val |-> NoValue, consumed |-> 0]
    ELSE LET c == CastValue(flagDefs[name].Type, raw[pos + 1], flagDefs[name].EnumValues)
         IN  IF c.err # "" THEN [err |-> c.err, val |-> NoValue, consumed |-> 0]
             ELSE [err |-> "", val |-> c.val, consumed |-> 2]

\* consumeFlagValue: the value of flag name at raw[pos] and the tokens it takes.
ConsumeFlagValue(name, raw, pos, flagDefs) ==
    IF ~MapHas(flagDefs, name)
    THEN [err |-> "unknown flag", val |-> NoValue, consumed |-> 0]
    ELSE IF ContainsEq(name)
    THEN [err |-> "invalid flag name", val |-> NoValue, consumed |-> 0]
    ELSE LET flag == flagDefs[name] IN
         IF ContainsEq(raw[pos])
         THEN LET c == CastValue(flag.Type, AfterEq(raw[pos]), flag.EnumValues)
              IN  IF c.err # "" THEN [err |-> c.err, val |-> NoValue, consumed |-> 0]
                  ELSE [err |-> "", val |-> c.val, consumed |-> 1]
         ELSE IF flag.Type = ArgTypeBool
         THEN [err |-> "", val |-> BoolVal(TRUE), consumed |-> 1]
         ELSE IF pos + 1 > Len(raw)
         THEN [err |-> "flag requires a value", val |-> NoValue, consumed |-> 0]
         ELSE LET c == CastValue(flag.Type, raw[pos + 1], flag.EnumValues)
              IN  IF c.err # "" THEN [err |-> c.err, val |-> NoValue, consumed |-> 0]
                  ELSE [err |-> "", val |-> c.val, consumed |-> 2]

\* A repeatable slot that keeps the last token only.
AppendRepeatKeepsLast(argValues, name, token) == MapPut(argValues, name, ListVal(<<token>>))

\* repeatValues, _ := argValues[name].([]string); append(repeatValues, token)
AppendRepeat(argValues, name, token) ==
    LET old == IF MapHas(argValues, name) /\ argValues[name].type = "[]string"
               THEN argValues[name].val ELSE <<>>
    IN  MapPut(argValues, name, ListVal(Append(old, token)))

ParseError(e) == [err |-> e, args |-> EmptyMap, flags |-> EmptyMap]

\* applyDefaultsAndValidate for []ArgSpec, from the i-th on.
RECURSIVE ArgDefaults(_, _, _)
ArgDefaults(target, specs, i) ==
    IF i > Len(specs) THEN [err |-> "", vals |-> target]
    ELSE LET arg == specs[i] IN
         IF MapHas(target, arg.Name) THEN ArgDefaults(target, specs, i + 1)
         ELSE IF arg.Required /\ arg.Default = NoValue /\ ~arg.Repeatable
         THEN [err |-> "missing required argument", vals |-> target]
         ELSE IF arg.Default # NoValue
         THEN ArgDefaults(MapPut(target, arg.Name, arg.Default), specs, i + 1)
         ELSE ArgDefaults(target, specs, i + 1)

\* An applyDefaultsAndValidate that treats a hidden flag like any other.
RECURSIVE FlagDefaultsHiddenToo(_, _, _)
FlagDefaultsHiddenToo(target, specs, i) ==
    IF i > Len(specs) THEN [err |-> "", vals |-> target]
    ELSE LET flag == specs[i] IN
         IF MapHas(target, flag.Name) THEN FlagDefaultsHiddenToo(target, specs, i + 1)
         ELSE IF flag.Required /\ flag.Default = NoValue /\ flag.Type # ArgTypeBool
         THEN [err |-> "missing required flag", vals |-> target]
         ELSE IF flag.Default # NoValue
         THEN FlagDefaultsHiddenToo(MapPut(target, flag.Name, flag.Default), specs, i + 1)
         ELSE IF flag.Type = ArgTypeBool
         THEN FlagDefaultsHiddenToo(MapPut(target, flag.Name, BoolVal(FALSE)), specs, i + 1)
         ELSE FlagDefaultsHiddenToo(target, specs, i + 1)

\* applyDefaultsAndValidate for []FlagSpec, from the i-th on.
RECURSIVE FlagDefaults(_, _, _)
FlagDefaults(target, specs, i) ==
    IF i > Len(specs) THEN [err |-> "", vals |-> target]
    ELSE LET flag == specs[i] IN
         IF flag.Hidden \/ MapHas(target, flag.Name) THEN FlagDefaults(target, specs, i + 1)
         ELSE IF flag.Required /\ flag.Default = NoValue /\ flag.Type # ArgTypeBool
         THEN [err |-> "missing required flag", vals |-> target]
         ELSE IF flag.Default # NoValue
         THEN FlagDefaults(MapPut(target, flag.Name, flag.Default), specs, i + 1)
         ELSE IF flag.Type = ArgTypeBool
         THEN FlagDefaults(MapPut(target, flag.Name, BoolVal(FALSE)), specs, i + 1)
         ELSE FlagDefaults(target, specs, i + 1)

\* The scan of Parse from token i, with the positional index and the values so far.
RECURSIVE ParseFrom(_, _, _, _, _, _)
ParseFrom(raw, spec, i, posIndex, argValues, flagValues) ==
    IF i > Len(raw)
    THEN LET a == ArgDefaults(argValues, spec.Args, 1) IN
         IF a.err # "" THEN ParseError(a.err)
         ELSE LET f == FlagDefaults(flagValues, spec.Flags, 1) IN
              IF f.err # "" THEN ParseError(f.err)
              ELSE [err |-> "", args |-> a.vals, flags |-> f.vals]
    ELSE LET token == raw[i]
             isLong == HasPrefix(token, <<"-", "-">>)
             isShort == ~isLong /\ HasPrefix(token, <<"-">>) /\ token # <<"-">>
         IN
         IF isLong \/ isShort
         THEN LET short == ResolveShorthand(TrimPrefix(token, <<"-">>), spec.Flags)
                  name == IF isLong THEN TrimPrefix(token, <<"-", "-">>) ELSE short.name
              IN  IF isShort /\ ~short.ok THEN ParseError("unknown flag")
                  ELSE LET c == ConsumeFlagValue(name, raw, i, BuildFlagIndex(spec.Flags)) IN
                       IF c.err # "" THEN ParseError(c.err)
                       ELSE IF c.consumed > 0
                       THEN ParseFrom(raw, spec, i + c.consumed, posIndex, argValues,
                                      MapPut(flagValues, name, c.val))
                       ELSE ParseFrom(raw, spec, i + 1, posIndex, argValues,
                                      MapPut(flagValues, name,
                                             IF c.val # NoValue THEN c.val ELSE BoolVal(TRUE)))
         ELSE IF posIndex >= Len(spec.Args)
         THEN IF Len(spec.Args) > 0 /\ spec.Args[Len(spec.Args)].Repeatable
                 /\ posIndex >= Len(spec.Args) - 1
              THEN ParseFrom(raw, spec, i + 1, posIndex,
                             AppendRepeat(argValues, spec.Args[Len(spec.Args)].Name, token),
                             flagValues)
              ELSE ParseError("unexpected argument")
         ELSE LET arg == spec.Args[posIndex + 1] IN
              IF arg.Repeatable
              THEN ParseFrom(raw, spec, i + 1, posIndex,
                             AppendRepeat(argValues, arg.Name, token), flagValues)
              ELSE ParseFrom(raw, spec, i + 1, posIndex + 1,
                             MapPut(argValues, arg.Name, StrVal(token)), flagValues)

\* Parse parses raw arguments with the spec's metadata.
Parse(raw, spec) == ParseFrom(raw, spec, 1, 0, EmptyMap, EmptyMap)

\* The flags and positionals of the specs handed to Parse.
CountFlag == [Name |-> Chars("count"), Shorthand |-> Chars("c"), Type |-> ArgTypeInt,
              Required |-> FALSE, Default |-> NoValue, EnumValues |-> <<>>,
              Hidden |-> FALSE]
VerboseFlag == [Name |-> Chars("verbose"), Shorthand |-> Chars("v"), Type |-> ArgTypeBool,
                Required |-> FALSE, Default |-> NoValue, EnumValues |-> <<>>,
                Hidden |-> FALSE]

Arg(name, kind, repeatable, enum) ==
    [Name |-> name, Type |-> kind, Required |-> FALSE, Repeatable |-> repeatable,
     Default |-> NoValue, EnumValues |-> enum]
NameArg == Arg("name", ArgTypeString, FALSE, <<>>)
TagArg == Arg("tag", ArgTypeString, TRUE, <<>>)
NumArg == Arg("n", ArgTypeInt, FALSE, <<>>)
ModeArg == Arg("mode", ArgTypeEnum, FALSE, <<Chars("web"), Chars("db")>>)

\* The positional declarations of the specs handed to Parse.
ArgLists == {<<>>, <<NameArg>>, <<TagArg>>, <<NameArg, TagArg>>, <<NumArg>>, <<ModeArg>>}

ParseSpec(args) ==
    [Name |-> "cmd", Aliases |-> {}, Context |-> "", Args |-> args,
     Flags |-> <<CountFlag, VerboseFlag>>, AllowPipes |-> FALSE, Hidden |-> FALSE]
ParseSpecs == {ParseSpec(a) : a \in ArgLists}

\* The tokens of the lists handed to Parse, and the lists.
ParseTokens == {"--count", "--count=3", "--count=x", "3", "x", "web", "--verbose", "-v",
                "-c", "-z"}
TokenLists == UNION {[1..n -> ParseTokens] : n \in 0..MaxTokens}

\* Declarations that vary in what applyDefaultsAndValidate reads: Required,
\* Default, Repeatable and Hidden.
CountFlags ==
    {[CountFlag EXCEPT !.Required = r, !.Default = d, !.Hidden = h] :
        r \in BOOLEAN, d \in {NoValue, IntVal(12)}, h \in BOOLEAN}
SecretFlags ==
    {[Name |-> Chars("secret"), Shorthand |-> <<"s">>, Type |-> ArgTypeBool,
      Required |-> FALSE, Default |-> d, EnumValues |-> <<>>, Hidden |-> h] :
        d \in {NoValue, BoolVal(TRUE)}, h \in BOOLEAN}
NameArgs ==
    {[NameArg EXCEPT !.Required = r, !.Default = d] :
        r \in BOOLEAN, d \in {NoValue, StrVal(Chars("web"))}}
TagArgs ==
    {[TagArg EXCEPT !.Required = r, !.Default = d] :
        r \in BOOLEAN, d \in {NoValue, ListVal(<<Chars("db")>>)}}
DefaultsArgLists ==
    {<<>>} \cup {<<a>> : a \in NameArgs} \cup {<<t>> : t \in TagArgs}
        \cup {<<a, t>> : a \in NameArgs, t \in TagArgs}
DefaultsSpecs ==
    {[ParseSpec(a) EXCEPT !.Flags = <<c, h>>] :
        a \in DefaultsArgLists, c \in CountFlags, h \in SecretFlags}
\* Declarations with a repeatable positional that is not the last one, beside
\* well-formed ones.
StructureArgLists ==
    {<<t, a>> : t \in TagArgs, a \in NameArgs}
        \cup {<<t, [t EXCEPT !.Name = "more"]>> : t \in TagArgs}
        \cup {<<a, t>> : a \in NameArgs, t \in TagArgs}
StructureSpecs == {ParseSpec(a) : a \in StructureArgLists}
DefaultsTokens == {"x", "--count", "3", "--secret"}
\* Tokens with one dash beside their long forms.
ShorthandTokens == {"-c", "-v", "-z", "-", "--count", "--verbose", "3", "x"}
ShorthandTokenLists == UNION {[1..n -> ShorthandTokens] : n \in 0..MaxTokens}
DefaultsTokenLists == UNION {[1..n -> DefaultsTokens] : n \in 0..MaxTokens}

----------------------------------------------------------------------------
\* Context specifications and frames.

RootSpec == [Name |-> "", Prompt |-> "> ", Aliases |-> {}]
ZeroContextSpec == [Name |-> "", Prompt |-> "", Aliases |-> {}]

ServersSpec == [Name |-> "servers", Prompt |-> "", Aliases |-> {"srv"}]
DbSpec == [Name |-> "db", Prompt |-> "{base}[{context}] ", Aliases |-> {"srv"}]
RootAliasSpec == [Name |-> "", Prompt |-> "> ", Aliases |-> {"home"}]

LogsSpec == [Name |-> "logs", Prompt |-> "", Aliases |-> {}]

\* The context specifications an application registers: two contexts that claim
\* the same alias, and a re-registration of root that gives it an alias.
CtxSpecs == {ServersSpec, DbSpec}
EngineCtxSpecs == {ServersSpec, RootAliasSpec}

\* The context specifications handed to RegisterContext when the registry is
\* driven directly: two names, every alias list over three aliases (one of them
\* the empty string, one the name of the other context), two prompts.
RegistrableSpecs ==
    {[Name |-> n, Prompt |-> p, Aliases |-> a] :
        n \in {"servers", "db"}, p \in {"", "{base}[{context}] "},
        a \in SUBSET {"srv", "db", ""}}

\* The contexts registered while prompts are asked for: one without a prompt
\* template, and db registered with one template and then with another.
DbAgainSpec == [DbSpec EXCEPT !.Prompt = "{context}:{base}{context}"]
PromptCtxSpecs == {ServersSpec, DbSpec, DbAgainSpec}

\* The base prefixes handed to Prompt.
Bases == {"", "app", "{context}"}

\* The names handed to Navigate and Push.
NavNames == {"", "servers", "srv", "db", "nosuch"}

NewFrame(spec, payload) == [Spec |-> spec, State |-> EmptyMap, Payload |-> payload]

----------------------------------------------------------------------------
\* Command specifications and factories.

HelpSpec == [Name |-> "help", Aliases |-> {"?", "h"}, Context |-> "",
             Args |-> <<>>, Flags |-> <<>>, AllowPipes |-> FALSE, Hidden |-> FALSE]
TasksSpec == [Name |-> "tasks", Aliases |-> {}, Context |-> "",
              Args |-> <<>>, Flags |-> <<>>, AllowPipes |-> FALSE, Hidden |-> FALSE]

HelpEntry == [Factory |-> "helpCommandFactory", Spec |-> HelpSpec]
TasksEntry == [Factory |-> "tasksCommandFactory", Spec |-> TasksSpec]

\* The factories an application registers (CommandFactory: identity and Spec()).
ListSpec == [Name |-> "list", Aliases |-> {"ls"}, Context |-> "servers",
             Args |-> <<>>, Flags |-> <<CountFlag>>, AllowPipes |-> FALSE,
             Hidden |-> FALSE]
ShowSpec == [Name |-> "show", Aliases |-> {"list"}, Context |-> "servers",
             Args |-> <<>>, Flags |-> <<>>, AllowPipes |-> FALSE, Hidden |-> FALSE]
ServersCmdSpec == [Name |-> "servers", Aliases |-> {}, Context |-> "",
                   Args |-> <<>>, Flags |-> <<>>, AllowPipes |-> FALSE, Hidden |-> FALSE]

ListEntry == [Factory |-> "listFactory", Spec |-> ListSpec]
ShowEntry == [Factory |-> "showFactory", Spec |-> ShowSpec]
ServersCmdEntry == [Factory |-> "serversCmdFactory", Spec |-> ServersCmdSpec]

\* A command that permits pipeline forwarding.
PipeSpec == [Name |-> "pipe", Aliases |-> {}, Context |-> "servers",
             Args |-> <<>>, Flags |-> <<>>, AllowPipes |-> TRUE, Hidden |-> FALSE]
PipeEntry == [Factory |-> "pipeFactory", Spec |-> PipeSpec]

Factories == {ListEntry, ShowEntry, ServersCmdEntry}

\* A hidden command, and a second command named list that is hidden and has no alias.
DebugSpec == [Name |-> "debug", Aliases |-> {}, Context |-> "servers",
              Args |-> <<>>, Flags |-> <<>>, AllowPipes |-> FALSE, Hidden |-> TRUE]
DebugEntry == [Factory |-> "debugFactory", Spec |-> DebugSpec]
ListHiddenEntry ==
    [Factory |-> "hiddenListFactory",
     Spec |-> [ListSpec EXCEPT !.Aliases = {}, !.Hidden = TRUE]]
ListingFactories == {ListEntry, ShowEntry, DebugEntry, ListHiddenEntry}
ListingContexts == {"", "servers", "db"}
EngineFactories == {ListEntry, ServersCmdEntry}

\* The keys a command is stored under: its name and every alias.
Keys(spec) == {spec.Name} \cup spec.Aliases

\* The contexts and keys looked up with Resolve.
CmdContexts == {"", "servers", "srv", "db"}
CmdKeys == {"help", "?", "h", "tasks", "list", "ls", "show", "servers", "nosuch"}

\* The (context, key) pairs handed to UnregisterCommand.
UnregisterPairs == {<<"servers", "list">>, <<"servers", "ls">>, <<"servers", "show">>,
                    <<"", "h">>, <<"", "list">>, <<"db", "list">>}

----------------------------------------------------------------------------
\* CommandRegistry.

\* r.contexts[spec.Name] = spec
PutContext(ctxs, spec) == MapPut(ctxs, spec.Name, spec)

\* An alias table in which an alias, once taken, keeps its first context.
PutAliasesFirstWins(als, spec) ==
    [a \in (DOMAIN als) \cup spec.Aliases |->
        IF a \in DOMAIN als THEN als[a] ELSE spec.Name]

\* for _, alias := range spec.Aliases { r.aliases[alias] = spec.Name }
PutAliases(als, spec) ==
    [a \in (DOMAIN als) \cup spec.Aliases |->
        IF a \in spec.Aliases THEN spec.Name ELSE als[a]]

\* A lookup that knows contexts by their canonical names only.
ContextByNameOnly(name) ==
    IF MapHas(contexts, name)
    THEN [ok |-> TRUE, spec |-> contexts[name]]
    ELSE [ok |-> FALSE, spec |-> ZeroContextSpec]

\* Context retrieves a context specification, canonicalising an alias first.
Context(name) ==
    LET canonical == IF MapHas(aliases, name) THEN aliases[name] ELSE name
    IN  IF MapHas(contexts, canonical)
        THEN [ok |-> TRUE, spec |-> contexts[canonical]]
        ELSE [ok |-> FALSE, spec |-> ZeroContextSpec]

\* ResolveContextName returns the canonical context name, considering aliases.
ResolveContextName(name) ==
    IF name = "" THEN [ok |-> TRUE, name |-> ""]
    ELSE IF MapHas(aliases, name) THEN [ok |-> TRUE, name |-> aliases[name]]
    ELSE [ok |-> MapHas(contexts, name), name |-> name]

\* A registration that stores the entry under its name and forgets the aliases.
PutCommandNameOnly(cmds, entry) ==
    LET ctx == entry.Spec.Context
        old == IF MapHas(cmds, ctx) THEN cmds[ctx] ELSE EmptyMap
    IN  MapPut(cmds, ctx, MapPut(old, entry.Spec.Name, entry))

\* The command map after RegisterCommand stored entry under its name and aliases.
PutCommand(cmds, entry) ==
    LET ctx == entry.Spec.Context
        old == IF MapHas(cmds, ctx) THEN cmds[ctx] ELSE EmptyMap
        new == [k \in (DOMAIN old) \cup Keys(entry.Spec) |->
                   IF k \in Keys(entry.Spec) THEN entry ELSE old[k]]
    IN  MapPut(cmds, ctx, new)

\* The command map after UnregisterCommand deleted the one key.
\* An UnregisterCommand that removes the command stored under name with all its keys.
DelCommandWithAliases(cmds, ctx, name) ==
    IF MapHas(cmds, ctx) /\ MapHas(cmds[ctx], name)
    THEN MapPut(cmds, ctx, [k \in {x \in DOMAIN cmds[ctx] : cmds[ctx][x] # cmds[ctx][name]}
                               |-> cmds[ctx][k]])
    ELSE cmds

DelCommand(cmds, ctx, name) ==
    IF MapHas(cmds, ctx) THEN MapPut(cmds, ctx, MapDel(cmds[ctx], name)) ELSE cmds

ZeroCommandSpec == [Name |-> "", Aliases |-> {}, Context |-> "", Args |-> <<>>,
                    Flags |-> <<>>, AllowPipes |-> FALSE, Hidden |-> FALSE]
ZeroEntry == [Factory |-> Nil, Spec |-> ZeroCommandSpec]

\* A lookup that falls back to the root context when the context has no such key.
ResolveRootFallback(ctx, name) ==
    IF MapHas(commands, ctx) /\ MapHas(commands[ctx], name)
    THEN [ok |-> TRUE, entry |-> commands[ctx][name]]
    ELSE IF MapHas(commands, "") /\ MapHas(commands[""], name)
    THEN [ok |-> TRUE, entry |-> commands[""][name]]
    ELSE [ok |-> FALSE, entry |-> ZeroEntry]

\* Resolve finds a command entry for a context: an exact lookup in that context only.
Resolve(ctx, name) ==
    IF MapHas(commands, ctx) /\ MapHas(commands[ctx], name)
    THEN [ok |-> TRUE, entry |-> commands[ctx][name]]
    ELSE [ok |-> FALSE, entry |-> ZeroEntry]

\* sort.Slice(specs, by Name): the specs of a set with distinct names, ascending.
RECURSIVE SortedByName(_)
SortedByName(specs) ==
    IF specs = {} THEN <<>>
    ELSE LET first == CHOOSE x \in specs :
                          \A y \in specs \ {x} : Less(Chars(x.Name), Chars(y.Name))
         IN  <<first>> \o SortedByName(specs \ {first})

\* Commands: what the loop over the map r.commands[ctx] can return. The order
\* in which Go ranges over a map is unspecified, so of the entries that share a
\* Spec.Name any one may be met first; that one marks the name as seen and is
\* appended unless it is hidden and hidden commands were not asked for.
CommandsResults(ctx, includeHidden) ==
    LET entries == IF MapHas(commands, ctx)
                   THEN {commands[ctx][k] : k \in DOMAIN commands[ctx]} ELSE {}
        names == {e.Spec.Name : e \in entries}
        firsts == {f \in [names -> entries] : \A n \in names : f[n].Spec.Name = n}
    IN  {SortedByName({f[n].Spec : n \in {m \in names :
                                               ~(f[m].Spec.Hidden /\ ~includeHidden)}}) :
            f \in firsts}

Note(op, name, payload, err) ==
    [op |-> op, name |-> name, payload |-> payload, err |-> err,
     pre |-> stack, afterPush |-> FALSE, prePush |-> stack]

RegisterContext(spec) ==
    /\ contexts' = PutContext(contexts, spec)
    /\ aliases' = PutAliases(aliases, spec)
    /\ last' = Note("RegisterContext", spec.Name, Nil, "")
    /\ UNCHANGED <<commands, stack, registered, live, middleware, pc, concVars>>

\* spec.Name == "" panics before anything is stored; no factory here has an empty name.
RegisterCommand(entry) ==
    /\ entry.Spec.Name # ""
    /\ commands' = PutCommand(commands, entry)
    /\ registered' = registered \cup {entry}
    /\ live' = {e \in live : e.Spec.Context # entry.Spec.Context
                             \/ Keys(e.Spec) \cap Keys(entry.Spec) = {}} \cup {entry}
    /\ last' = Note("RegisterCommand", entry.Spec.Name, Nil, "")
    /\ UNCHANGED <<contexts, aliases, stack, middleware, pc, concVars>>

UnregisterCommand(ctx, name) ==
    /\ commands' = DelCommand(commands, ctx, name)
    /\ live' = {e \in live : ~(e.Spec.Context = ctx /\ name \in Keys(e.Spec))}
    /\ last' = Note("UnregisterCommand", name, Nil, "") @@ [ctx |-> ctx]
    /\ UNCHANGED <<contexts, aliases, stack, registered, middleware, pc, concVars>>

\* Commands(ctx, includeHidden) is called and returns one of its possible lists.
Commands(ctx, includeHidden) ==
    /\ \E result \in CommandsResults(ctx, includeHidden) :
          last' = [op |-> "Commands", ctx |-> ctx, includeHidden |-> includeHidden,
                   result |-> result]
    /\ UNCHANGED <<regVars, stack, engVars, concVars>>

----------------------------------------------------------------------------
\* ContextManager.

ErrUnknownContext == "unknown context"
ErrAtRoot == "already at root context"

\* A reset that removes the top frame only.
PopToRootStackOneLevel(stk) == IF Len(stk) > 1 THEN SubSeq(stk, 1, Len(stk) - 1) ELSE stk

\* m.stack[:1]
PopToRootStack(stk) == SubSeq(stk, 1, 1)

\* A Navigate that appends to the whole stack instead of to m.stack[:1].
NavigateStackNoTruncate(stk, spec, payload) == Append(stk, NewFrame(spec, payload))

\* append(m.stack[:1], ExecutionContext{Spec: spec, State: map[string]any{}, Payload: payload})
NavigateStack(stk, spec, payload) == Append(SubSeq(stk, 1, 1), NewFrame(spec, payload))

\* append(m.stack, ExecutionContext{Spec: spec, State: map[string]any{}, Payload: payload})
PushStack(stk, spec, payload) == Append(stk, NewFrame(spec, payload))

\* A Pop that cuts the stack back to the root frame.
PopStackToRoot(stk) == SubSeq(stk, 1, 1)

\* m.stack[:len(m.stack)-1]
PopStack(stk) == SubSeq(stk, 1, Len(stk) - 1)

\* A Navigate that truncates the stack before it validates the name.
NavigateResultTruncateFirst(stk, name, payload) ==
    IF name = "" THEN [err |-> "", stack |-> PopToRootStack(stk)]
    ELSE IF ~Context(name).ok
    THEN [err |-> ErrUnknownContext, stack |-> PopToRootStack(stk)]
    ELSE [err |-> "", stack |-> NavigateStack(stk, Context(name).spec, payload)]

\* The outcome of Navigate: the error returned ("" for nil) and the stack left.
NavigateResult(stk, name, payload) ==
    IF name = "" THEN [err |-> "", stack |-> PopToRootStack(stk)]
    ELSE IF ~Context(name).ok THEN [err |-> ErrUnknownContext, stack |-> stk]
    ELSE [err |-> "", stack |-> NavigateStack(stk, Context(name).spec, payload)]

\* A Push that treats the empty name as Navigate does.
PushResultEmptyPopsToRoot(stk, name, payload) ==
    IF name = "" THEN [err |-> "", stack |-> PopToRootStack(stk)]
    ELSE IF ~Context(name).ok THEN [err |-> ErrUnknownContext, stack |-> stk]
    ELSE [err |-> "", stack |-> PushStack(stk, Context(name).spec, payload)]

PushResult(stk, name, payload) ==
    IF ~Context(name).ok THEN [err |-> ErrUnknownContext, stack |-> stk]
    ELSE [err |-> "", stack |-> PushStack(stk, Context(name).spec, payload)]

\* A Pop without the root check.
PopResultNoRootCheck(stk) == [err |-> "", stack |-> PopStack(stk)]

PopResult(stk) ==
    IF Len(stk) <= 1 THEN [err |-> ErrAtRoot, stack |-> stk]
    ELSE [err |-> "", stack |-> PopStack(stk)]

PopToRootResult(stk) == [err |-> "", stack |-> PopToRootStack(stk)]

\* The record of a ContextManager call; a Pop remembers a Push that succeeded right before it.
NavNote(op, name, payload, err) ==
    [op |-> op, name |-> name, payload |-> payload, err |-> err, pre |-> stack,
     afterPush |-> (op = "Pop" /\ last.op = "Push" /\ last.err = ""),
     prePush |-> IF op = "Pop" /\ last.op = "Push" /\ last.err = "" THEN last.pre ELSE stack]

Navigate(name, payload) ==
    /\ stack' = NavigateResult(stack, name, payload).stack
    /\ last' = NavNote("Navigate", name, payload, NavigateResult(stack, name, payload).err)
    /\ UNCHANGED <<regVars, engVars, concVars>>

Push(name, payload) ==
    /\ Len(stack) < MaxDepth
    /\ stack' = PushResult(stack, name, payload).stack
    /\ last' = NavNote("Push", name, payload, PushResult(stack, name, payload).err)
    /\ UNCHANGED <<regVars, engVars, concVars>>

Pop ==
    /\ stack' = PopResult(stack).stack
    /\ last' = NavNote("Pop", "", Nil, PopResult(stack).err)
    /\ UNCHANGED <<regVars, engVars, concVars>>

PopToRoot ==
    /\ stack' = PopToRootResult(stack).stack
    /\ last' = NavNote("PopToRoot", "", Nil, PopToRootResult(stack).err)
    /\ UNCHANGED <<regVars, engVars, concVars>>

\* A caller writes a key into the State map of the frame Current() returned:
\* the copy of the frame shares its map with the frame on the stack.
WriteState ==
    /\ ~MapHas(stack[Len(stack)].State, "k")
    /\ stack' = [stack EXCEPT ![Len(stack)].State = MapPut(@, "k", "v")]
    /\ last' = NavNote("WriteState", "k", Nil, "")
    /\ UNCHANGED <<regVars, engVars, concVars>>

\* A caller assigns a payload to the frame Current() returned: the frame is a
\* copy of the struct, the assignment stays in the caller's variable.
SetPayload(payload) ==
    /\ last' = NavNote("SetPayload", "", payload, "")
    /\ UNCHANGED <<regVars, stack, engVars, concVars>>

\* A caller replaces element i of the slice Stack() returned: the slice is a
\* clone, the assignment stays in the clone.
ReplaceElement(i) ==
    /\ i \in 1..Len(stack)
    /\ last' = NavNote("ReplaceElement", "", Nil, "")
    /\ UNCHANGED <<regVars, stack, engVars, concVars>>

\* A caller writes a key into the State map of element i of the slice Stack()
\* returned: copy() copies the frames, and each copy shares its map with the
\* frame on the stack.
WriteStackState(i) ==
    /\ i \in 1..Len(stack)
    /\ ~MapHas(stack[i].State, "k")
    /\ stack' = [stack EXCEPT ![i].State = MapPut(@, "k", "v")]
    /\ last' = NavNote("WriteStackState", "k", Nil, "")
    /\ UNCHANGED <<regVars, engVars, concVars>>

----------------------------------------------------------------------------
\* Engine: what is written to the output writer, and what a command does.

Top(stk) == stk[Len(stk)]

\* One write to Engine.outputWriter: directly, or through an OutputChannel.
Out(kind, text, arg) == [kind |-> kind, text |-> text, arg |-> arg]

\* One step of an invocation: a cancellation scope made or released, an
\* interceptor entered or left, the factory or the command called.
Event(ev, who) == [ev |-> ev, who |-> who, at |-> 0]

\* A step of the interceptor registered i-th.
MwEvent(ev, mw, i) == [ev |-> ev, who |-> mw, at |-> i]

StatusSuccess == "success"
StatusFailed == "failed"

NoError == [set |-> FALSE, Message |-> "", Cause |-> "", Hints |-> <<>>]
ZeroResult == [Status |-> "", Error |-> NoError, Messages |-> <<>>,
               NextContext |-> "", Pipeline |-> Nil]

\* What one invocation of a command does: whether Factory.New fails or panics,
\* the calls Execute makes on its CommandRuntime, whether it panics then, and
\* the CommandResult it returns otherwise.
Behaviour(id, newErr, panic, calls, result) ==
    [id |-> id, newErr |-> newErr, panic |-> panic, calls |-> calls, result |-> result]

BNone == Behaviour("none", FALSE, "none", <<>>, ZeroResult)
BOk == Behaviour("ok", FALSE, "none", <<>>, [ZeroResult EXCEPT !.Status = StatusSuccess])
BFailedNext ==
    Behaviour("failedNext", FALSE, "none", <<>>,
              [ZeroResult EXCEPT !.Status = StatusFailed,
                                 !.Error = [set |-> TRUE, Message |-> "boom", Cause |-> "",
                                            Hints |-> <<"retry">>],
                                 !.NextContext = "servers"])
BNavigateTo ==
    Behaviour("navigateTo", FALSE, "none",
              <<[call |-> "NavigateTo", name |-> "servers", payload |-> "p1"]>>, ZeroResult)
BPanic == Behaviour("panic", FALSE, "execute", <<>>, ZeroResult)
BNewErr == Behaviour("newErr", TRUE, "none", <<>>, ZeroResult)

\* The behaviours of the commands an application registers.
Behaviours == {BOk, BFailedNext, BNavigateTo, BPanic, BNewErr}

\* No status, an error, and a NavigateTo on the handle.
BErrorNavigateTo ==
    Behaviour("errorNavigateTo", FALSE, "none",
              <<[call |-> "NavigateTo", name |-> "logs", payload |-> "p1"]>>,
              [ZeroResult EXCEPT !.Error = [set |-> TRUE, Message |-> "", Cause |-> "cause",
                                            Hints |-> <<>>]])
\* Status success set explicitly, with an error attached and a next context.
BSuccessError ==
    Behaviour("successError", FALSE, "none", <<>>,
              [ZeroResult EXCEPT !.Status = StatusSuccess,
                                 !.Error = [set |-> TRUE, Message |-> "odd", Cause |-> "",
                                            Hints |-> <<>>],
                                 !.NextContext = "logs"])
\* A NavigateTo on the handle and a different next context in the result.
BBoth ==
    Behaviour("both", FALSE, "none",
              <<[call |-> "NavigateTo", name |-> "servers", payload |-> "p1"]>>,
              [ZeroResult EXCEPT !.NextContext = "logs", !.Pipeline = "p2"])
\* A next context and pipeline data in the result only.
BResultNext ==
    Behaviour("resultNext", FALSE, "none", <<>>,
              [ZeroResult EXCEPT !.Status = StatusSuccess, !.NextContext = "logs",
                                 !.Pipeline = "p2"])
\* Pipeline data in the result, and no transition.
BPipeline ==
    Behaviour("pipeline", FALSE, "none", <<>>,
              [ZeroResult EXCEPT !.Status = StatusSuccess, !.Pipeline = "p2"])
\* A NavigateTo to a context nobody registered.
BNavigateNowhere ==
    Behaviour("navigateNowhere", FALSE, "none",
              <<[call |-> "NavigateTo", name |-> "nosuch", payload |-> Nil]>>, ZeroResult)
\* Factory.New panics.
BPanicNew == Behaviour("panicNew", FALSE, "new", <<>>, ZeroResult)

\* A NavigateTo on the handle, then a panic in Execute.
BNavigatePanic ==
    Behaviour("navigatePanic", FALSE, "execute",
              <<[call |-> "NavigateTo", name |-> "logs", payload |-> "p1"]>>, ZeroResult)

\* PushContext and a NavigateTo on the handle, then a failed result that also
\* names a next context.
BPushFailed ==
    Behaviour("pushFailed", FALSE, "none",
              <<[call |-> "PushContext", name |-> "logs", payload |-> "p1"],
                [call |-> "NavigateTo", name |-> "servers", payload |-> "p2"]>>,
              [ZeroResult EXCEPT !.Status = StatusFailed,
                                 !.Error = [set |-> TRUE, Message |-> "boom", Cause |-> "",
                                            Hints |-> <<>>],
                                 !.NextContext = "servers"])
\* PopContext on the handle, then a panic in Execute.
BPopPanic ==
    Behaviour("popPanic", FALSE, "execute",
              <<[call |-> "PopContext", name |-> "", payload |-> Nil]>>, ZeroResult)

\* NavigateTo with the empty name, and nothing in the result.
BNavigateRoot ==
    Behaviour("navigateRoot", FALSE, "none",
              <<[call |-> "NavigateTo", name |-> "", payload |-> "p1"]>>, ZeroResult)
\* NavigateTo with the empty name, and a next context in the result.
BEmptyThenResult ==
    Behaviour("emptyThenResult", FALSE, "none",
              <<[call |-> "NavigateTo", name |-> "", payload |-> "p1"]>>,
              [ZeroResult EXCEPT !.NextContext = "logs", !.Pipeline = "p2"])

\* The behaviours offered to the invocation pipeline.
InvokeBehaviours ==
    Behaviours \cup {BErrorNavigateTo, BSuccessError, BBoth, BResultNext, BPipeline,
                     BNavigateNowhere, BPanicNew, BNavigatePanic, BPushFailed, BPopPanic,
                     BNavigateRoot, BEmptyThenResult}

\* helpCommand.Execute and tasksCommand.Execute.
BHelp == Behaviour("help", FALSE, "none", <<[call |-> "renderHelp", name |-> "", payload |-> Nil]>>,
                   [ZeroResult EXCEPT !.Status = StatusSuccess])
BTasks == Behaviour("tasks", FALSE, "none", <<[call |-> "WriteTable", name |-> "", payload |-> Nil]>>,
                    [ZeroResult EXCEPT !.Status = StatusSuccess])

BehaviourOf(entry, b) ==
    IF entry.Factory = "helpCommandFactory" THEN BHelp
    ELSE IF entry.Factory = "tasksCommandFactory" THEN BTasks
    ELSE b

\* A CommandRuntime whose PushContext only records a request, as NavigateTo does.
ApplyCallDefersPush(x, c) ==
    CASE c.call = "NavigateTo" -> [x EXCEPT !.nextContext = c.name, !.nextPayload = c.payload]
      [] c.call = "PushContext" -> [x EXCEPT !.nextContext = c.name, !.nextPayload = c.payload]
      [] c.call = "PopContext" -> [x EXCEPT !.stack = PopResult(@).stack]
      [] c.call = "SetPipelineData" -> [x EXCEPT !.pipeline = c.payload]
      [] c.call = "renderHelp" ->
            [x EXCEPT !.out = Append(@, Out("help", Top(x.stack).Spec.Name, ""))]
      [] c.call = "WriteTable" -> [x EXCEPT !.out = Append(@, Out("table", "tasks", ""))]

\* One call a command makes on its CommandRuntime, applied to the invocation x.
ApplyCall(x, c) ==
    CASE c.call = "NavigateTo" -> [x EXCEPT !.nextContext = c.name, !.nextPayload = c.payload]
      [] c.call = "PushContext" -> [x EXCEPT !.stack = PushResult(@, c.name, c.payload).stack]
      [] c.call = "PopContext" -> [x EXCEPT !.stack = PopResult(@).stack]
      [] c.call = "SetPipelineData" -> [x EXCEPT !.pipeline = c.payload]
      [] c.call = "renderHelp" ->
            [x EXCEPT !.out = Append(@, Out("help", Top(x.stack).Spec.Name, ""))]
      [] c.call = "WriteTable" -> [x EXCEPT !.out = Append(@, Out("table", "tasks", ""))]

RECURSIVE ApplyCalls(_, _, _)
ApplyCalls(x, calls, i) ==
    IF i > Len(calls) THEN x ELSE ApplyCalls(ApplyCall(x, calls[i]), calls, i + 1)

FailedToCreate ==
    [ZeroResult EXCEPT !.Status = StatusFailed,
                       !.Error = [set |-> TRUE, Message |-> "failed to create command",
                                  Cause |-> "factory error", Hints |-> <<>>]]

\* The innermost handler of coreHandler: Factory.New, then Execute.
CoreHandler(entry, b, x) ==
    LET x1 == [x EXCEPT !.events = Append(@, Event("call", "Factory.New"))] IN
    IF b.panic = "new" THEN [x1 EXCEPT !.panicked = TRUE]
    ELSE IF b.newErr THEN [x1 EXCEPT !.result = FailedToCreate]
    ELSE LET x2 == ApplyCalls([x1 EXCEPT !.events = Append(@, Event("call", "Execute"))],
                              b.calls, 1)
         IN  IF b.panic = "execute" THEN [x2 EXCEPT !.panicked = TRUE]
             ELSE [x2 EXCEPT !.result = b.result]

\* The result of an interceptor that refuses the invocation.
DeniedResult ==
    [ZeroResult EXCEPT !.Status = StatusFailed,
                       !.Error = [set |-> TRUE, Message |-> "denied", Cause |-> "",
                                  Hints |-> <<>>]]

\* The interceptors an application registers: one that refuses every
\* invocation without calling next, one that panics before calling next, one
\* that calls next twice and returns the second result; and TimingMiddleware.
Middlewares == {"TimingMiddleware", "DenyMiddleware", "PanicMiddleware", "RetryMiddleware"}

\* The invocation x as the interceptor registered i-th is entered.
Entered(x, mw, i) == [x EXCEPT !.events = Append(@, MwEvent("enter", mw, i))]

\* The interceptor registered i-th returns, unless a panic is passing through it.
Left(r, mw, i) ==
    IF r.panicked THEN r ELSE [r EXCEPT !.events = Append(@, MwEvent("leave", mw, i))]

\* A RecoveryMiddleware that returns a failed result for a recovered panic.
RecoveredAsFailed(entry, r, mw, i) ==
    IF r.panicked
    THEN [r EXCEPT !.panicked = FALSE,
                   !.result = [ZeroResult EXCEPT !.Status = StatusFailed],
                   !.out = Append(@, Out("ERROR", "command panicked", entry.Spec.Name)),
                   !.events = Append(@, MwEvent("recover", mw, i))]
    ELSE Left(r, mw, i)

\* RecoveryMiddleware after next returned or panicked with r: the deferred
\* recover writes the error and the zero CommandResult is returned.
Recovered(entry, r, mw, i) ==
    IF r.panicked
    THEN [r EXCEPT !.panicked = FALSE,
                   !.result = ZeroResult,
                   !.out = Append(@, Out("ERROR", "command panicked", entry.Spec.Name)),
                   !.events = Append(@, MwEvent("recover", mw, i))]
    ELSE Left(r, mw, i)

\* TimingMiddleware after next returned r.
Timed(entry, r, mw, i) ==
    IF r.panicked THEN r
    ELSE Left([r EXCEPT !.out = Append(@, Out("INFO", "finished", entry.Spec.Name))], mw, i)

\* coreHandler with the interceptors applied innermost first.
RECURSIVE ChainInnermostFirst(_, _, _, _)
ChainInnermostFirst(entry, b, x, i) ==
    IF i > Len(middleware) THEN CoreHandler(entry, b, x)
    ELSE LET at == Len(middleware) + 1 - i
             mw == middleware[Len(middleware) + 1 - i]
         IN
         CASE mw = "RecoveryMiddleware" ->
                Recovered(entry, ChainInnermostFirst(entry, b, Entered(x, mw, at), i + 1), mw, at)
           [] mw = "DenyMiddleware" ->
                Left([Entered(x, mw, at) EXCEPT !.result = DeniedResult], mw, at)
           [] mw = "PanicMiddleware" -> [Entered(x, mw, at) EXCEPT !.panicked = TRUE]
           [] OTHER ->
                Timed(entry, ChainInnermostFirst(entry, b, Entered(x, mw, at), i + 1), mw, at)

\* coreHandler without the default interceptor's recover.
RECURSIVE ChainWithoutRecover(_, _, _, _)
ChainWithoutRecover(entry, b, x, i) ==
    IF i > Len(middleware) THEN CoreHandler(entry, b, x)
    ELSE LET mw == middleware[i] IN
         CASE mw = "DenyMiddleware" -> Left([Entered(x, mw, i) EXCEPT !.result = DeniedResult], mw, i)
           [] mw = "PanicMiddleware" -> [Entered(x, mw, i) EXCEPT !.panicked = TRUE]
           [] OTHER -> Left(ChainWithoutRecover(entry, b, Entered(x, mw, i), i + 1), mw, i)

\* coreHandler: the interceptors from the i-th on, wrapped around the innermost handler.
RECURSIVE Chain(_, _, _, _)
RECURSIVE Again(_, _, _, _)

\* A second call of next by the interceptor registered i-th, after the first returned r.
Again(entry, b, r, i) == IF r.panicked THEN r ELSE Chain(entry, b, r, i + 1)

Chain(entry, b, x, i) ==
    IF i > Len(middleware) THEN CoreHandler(entry, b, x)
    ELSE LET mw == middleware[i] IN
         CASE mw = "RecoveryMiddleware" ->
                Recovered(entry, Chain(entry, b, Entered(x, mw, i), i + 1), mw, i)
           [] mw = "TimingMiddleware" ->
                Timed(entry, Chain(entry, b, Entered(x, mw, i), i + 1), mw, i)
           [] mw = "DenyMiddleware" ->
                Left([Entered(x, mw, i) EXCEPT !.result = DeniedResult], mw, i)
           [] mw = "PanicMiddleware" -> [Entered(x, mw, i) EXCEPT !.panicked = TRUE]
           [] mw = "RetryMiddleware" ->
                Left(Again(entry, b, Chain(entry, b, Entered(x, mw, i), i + 1), i), mw, i)

\* AggregateMessages: the messages stably sorted by severity, each written at its level.
SeverityOrder(level) == IF level = "warning" THEN 1 ELSE IF level = "error" THEN 2 ELSE 0
MessageOut(msg) ==
    Out(IF msg.Level = "info" THEN "INFO" ELSE IF msg.Level = "warning" THEN "WARNING"
        ELSE "ERROR", msg.Content, "")
AggregateMessages(messages) ==
    LET ranked(k) == SelectSeq(messages, LAMBDA m : SeverityOrder(m.Level) = k)
        sorted == ranked(0) \o ranked(1) \o ranked(2)
    IN  [i \in 1..Len(sorted) |-> MessageOut(sorted[i])]

\* The error line and the hint lines of a result's error.
ErrorOut(error) ==
    IF ~error.set THEN <<>>
    ELSE <<Out("ERROR", IF error.Message = "" THEN error.Cause ELSE error.Message, "")>>
         \o [i \in 1..Len(error.Hints) |-> Out("INFO", "hint", error.Hints[i])]

\* A normalisation that lets an attached error decide the status.
NormalStatusErrorWins(result) ==
    IF result.Error.set THEN StatusFailed
    ELSE IF result.Status # "" THEN result.Status ELSE StatusSuccess

\* The status after invoke normalised it.
NormalStatus(result) ==
    IF result.Status # "" THEN result.Status
    ELSE IF result.Error.set THEN StatusFailed ELSE StatusSuccess

\* The outcome of process for one line.
Outcome(branch, entry, b, err, arg, stk, out, events) ==
    [branch |-> branch, entry |-> entry, behaviour |-> b, err |-> err, arg |-> arg,
     stack |-> stk, out |-> out, events |-> events, status |-> "", panicked |-> FALSE,
     result |-> ZeroResult]

\* invoke, after the chain returned x: the result's messages and error are written.
WriteResult(x) ==
    [x EXCEPT !.out = @ \o AggregateMessages(x.result.Messages) \o ErrorOut(x.result.Error)]

\* A merge of the two requests in which the result's next context wins.
TakeNextContextResultWins(x) ==
    IF x.result.NextContext # ""
    THEN [x EXCEPT !.nextContext = x.result.NextContext, !.nextPayload = x.result.Pipeline]
    ELSE x

\* invoke: the result's NextContext counts only if the command requested none.
TakeNextContext(x) ==
    IF x.result.NextContext # "" /\ x.nextContext = ""
    THEN [x EXCEPT !.nextContext = x.result.NextContext, !.nextPayload = x.result.Pipeline]
    ELSE x

\* invoke: a piping command's pipeline result is handed to SetPipelineData.
TakePipeline(entry, x) ==
    IF entry.Spec.AllowPipes /\ x.result.Pipeline # Nil
    THEN ApplyCall(x, [call |-> "SetPipelineData", name |-> "", payload |-> x.result.Pipeline])
    ELSE x

\* invoke: the requested navigation, its error written to the error channel.
\* An invoke that calls Navigate whatever the runtime's next context is.
NavigateAfterAlways(x, nav) ==
    [x EXCEPT !.stack = nav.stack,
              !.out = IF nav.err # "" THEN Append(@, Out("ERROR", nav.err, "")) ELSE @]

NavigateAfter(x, nav) ==
    IF x.nextContext = "" THEN x
    ELSE [x EXCEPT !.stack = nav.stack,
                   !.out = IF nav.err # "" THEN Append(@, Out("ERROR", nav.err, "")) ELSE @]

FollowNavigation(x) == NavigateAfter(x, NavigateResult(x.stack, x.nextContext, x.nextPayload))

\* invoke: a failed result returns before any navigation.
AfterResult(entry, x) ==
    IF NormalStatus(x.result) = StatusFailed THEN x
    ELSE FollowNavigation(TakePipeline(entry, TakeNextContext(x)))

\* invoke after the handler chain returned x or panicked: a panic passes
\* through invoke, a result is normalised, written and followed.
Settled(entry, x) == IF x.panicked THEN x ELSE AfterResult(entry, WriteResult(x))

\* An invoke that cancels the scope at its last statement instead of deferring
\* the cancel: the early return of a failed result leaves the scope open.
FinishCancelAtEnd(entry, b, x) ==
    [Outcome("command", entry, b, "", "", x.stack, x.out,
             IF x.panicked \/ NormalStatus(x.result) = StatusFailed THEN x.events
             ELSE Append(x.events, Event("scope", "cancel")))
        EXCEPT !.status = IF x.panicked THEN "" ELSE NormalStatus(x.result),
               !.panicked = x.panicked,
               !.result = x.result]

\* invoke: the deferred cancel runs last.
Finish(entry, b, x) ==
    [Outcome("command", entry, b, "", "", x.stack, x.out,
             Append(x.events, Event("scope", "cancel")))
        EXCEPT !.status = IF x.panicked THEN "" ELSE NormalStatus(x.result),
               !.panicked = x.panicked,
               !.result = x.result]

\* The invocation as invoke sets it up: the runtime, and the cancellation scope.
NewExecution ==
    [stack |-> stack, nextContext |-> "", nextPayload |-> Nil,
     pipeline |-> Top(stack).Payload, out |-> <<>>,
     events |-> <<Event("scope", "WithCancel")>>, panicked |-> FALSE,
     result |-> ZeroResult]

\* invoke after a successful parse: the scope, the handler chain, the result.
Execution(entry, rest, b) ==
    Finish(entry, BehaviourOf(entry, b),
           Settled(entry, Chain(entry, BehaviourOf(entry, b), NewExecution, 1)))

\* An invoke that runs the command whatever Parse returned.
InvokeWithoutParseCheck(entry, rest, b) == Execution(entry, rest, b)

\* invoke: Parse first; its error is returned before anything else happens.
Invoke(entry, rest, b) ==
    IF Parse(CharsOf(rest), entry.Spec).err # ""
    THEN Outcome("command", entry, BNone, Parse(CharsOf(rest), entry.Spec).err, "", stack,
                 <<>>, <<>>)
    ELSE Execution(entry, rest, b)

\* handleCtxCommand
HandleCtxCommand(args) ==
    LET fail(e) == Outcome("ctx", ZeroEntry, BNone, e, "", stack, <<>>, <<>>)
        done(r) == Outcome("ctx", ZeroEntry, BNone, r.err, "", r.stack, <<>>, <<>>)
    IN  IF Len(args) = 0 THEN fail("ctx command requires arguments")
        ELSE CASE args[1] = "goto" ->
                    IF Len(args) < 2 THEN fail("ctx goto <name>")
                    ELSE done(NavigateResult(stack, args[2], Nil))
               [] args[1] = "push" ->
                    IF Len(args) < 2 THEN fail("ctx push <name>")
                    ELSE done(PushResult(stack, args[2], Nil))
               [] args[1] = "pop" -> done(PopResult(stack))
               [] OTHER -> fail("unknown ctx action")

\* A dispatch that resolves a command of the current context before it tries
\* the token as a context name.
DispatchCommandFirst(tokens, b) ==
    LET ctx == Top(stack).Spec.Name
        found == Context(tokens[1])
        r == Resolve(ctx, tokens[1])
    IN  IF r.ok THEN Invoke(r.entry, Tail(tokens), b)
        ELSE IF ctx = "" /\ found.ok /\ found.spec.Name # ""
        THEN LET n == NavigateResult(stack, found.spec.Name, Nil)
             IN  Outcome("enter", ZeroEntry, BNone, n.err, "", n.stack, <<>>, <<>>)
        ELSE Outcome("unknown", ZeroEntry, BNone, "unknown command", tokens[1], stack,
                     <<>>, <<>>)

\* process after the built-in verbs: at root a context name enters the context,
\* otherwise the token is resolved as a command of the current context.
\* A dispatch that enters a context only on its bare name, and with more
\* tokens runs the named command of that context, as the v1 loop does.
DispatchBareNameEnters(tokens, b) ==
    LET ctx == Top(stack).Spec.Name
        found == Context(tokens[1])
        r == Resolve(ctx, tokens[1])
        inner == Resolve(found.spec.Name, tokens[IF Len(tokens) > 1 THEN 2 ELSE 1])
    IN  IF ctx = "" /\ found.ok /\ found.spec.Name # "" /\ Len(tokens) = 1
        THEN LET n == NavigateResult(stack, found.spec.Name, Nil)
             IN  Outcome("enter", ZeroEntry, BNone, n.err, "", n.stack, <<>>, <<>>)
        ELSE IF ctx = "" /\ found.ok /\ found.spec.Name # "" /\ inner.ok
        THEN Invoke(inner.entry, SubSeq(tokens, 3, Len(tokens)), b)
        ELSE IF ~r.ok
        THEN Outcome("unknown", ZeroEntry, BNone, "unknown command", tokens[1], stack,
                     <<>>, <<>>)
        ELSE Invoke(r.entry, Tail(tokens), b)

Dispatch(tokens, b) ==
    LET ctx == Top(stack).Spec.Name
        found == Context(tokens[1])
        r == Resolve(ctx, tokens[1])
    IN  IF ctx = "" /\ found.ok /\ found.spec.Name # ""
        THEN LET n == NavigateResult(stack, found.spec.Name, Nil)
             IN  Outcome("enter", ZeroEntry, BNone, n.err, "", n.stack, <<>>, <<>>)
        ELSE IF ~r.ok
        THEN Outcome("unknown", ZeroEntry, BNone, "unknown command", tokens[1], stack,
                     <<>>, <<>>)
        ELSE Invoke(r.entry, Tail(tokens), b)

\* process: the built-in verbs first.
Process(tokens, b) ==
    LET ctx == Top(stack).Spec.Name
        plain(branch, out) == Outcome(branch, ZeroEntry, BNone, "", "", stack, out, <<>>)
        moved(branch, r) == Outcome(branch, ZeroEntry, BNone, r.err, "", r.stack, <<>>, <<>>)
    IN  CASE tokens[1] \in {"help", "?", "h", "ls"} -> plain("help", <<Out("help", ctx, "")>>)
          [] tokens[1] = "contexts" -> plain("contexts", <<Out("contexts", "", "")>>)
          [] tokens[1] = "ctx" -> HandleCtxCommand(Tail(tokens))
          [] tokens[1] \in {"back", ".."} -> moved("back", PopResult(stack))
          [] tokens[1] = "/" -> moved("root", PopToRootResult(stack))
          [] tokens[1] = "history" -> plain("history", <<Out("history", "", "")>>)
          [] OTHER -> Dispatch(tokens, b)

\* exitRequested
ExitRequested(token) == token \in {"exit", "quit", "q"}

\* The lines typed at the prompt, as the tokens strings.Fields gives.
Lines ==
    {<<v>> : v \in {"help", "ls", "contexts", "ctx", "back", "/", "history", "q",
                     "servers", "srv", "home", "list", "tasks", "nosuch"}}
    \cup {<<"ctx", "goto", "servers">>, <<"ctx", "goto", "nosuch">>, <<"ctx", "goto">>,
          <<"ctx", "push", "srv">>, <<"ctx", "push">>, <<"ctx", "pop">>, <<"ctx", "bogus">>}
    \cup {<<"list", "--count", "3">>, <<"list", "--count", "x">>, <<"list", "x">>,
          <<"tasks", "x">>, <<>>}
    \cup {<<"servers", "list">>, <<"srv", "list", "x">>, <<"home", "list">>}

\* The lines typed to exercise the invocation pipeline.
InvokeLines ==
    {<<"servers">>, <<"list">>, <<"pipe">>, <<"/">>, <<"nosuch">>, <<"q">>,
     <<"ctx", "bogus">>, <<"ctx", "goto", "nosuch">>, <<"list", "--count", "x">>}

\* A behaviour is an input of the lines that name a registered command only.
BehavioursFor(tokens) ==
    IF Len(tokens) > 0 /\ tokens[1] \in {"list", "pipe"} THEN InvokeBehaviours ELSE {BOk}

\* How far the lines read so far have walked root -> servers -> list -> / :
\* 1 after `servers` or `srv` typed at root, 2 after `list` typed next, 3 after
\* `/` typed next, 0 otherwise.
Walked(tokens) ==
    LET sofar == IF last.op = "Line" THEN last.walked ELSE 0 IN
    IF tokens \in {<<"servers">>, <<"srv">>} /\ Top(stack).Spec.Name = "" THEN 1
    ELSE IF sofar = 1 /\ tokens = <<"list">> THEN 2
    ELSE IF sofar = 2 /\ tokens = <<"/">> THEN 3
    ELSE 0

\* The record of one line of Run.
LineNote(tokens, o, out) ==
    [op |-> "Line", tokens |-> tokens, ctx |-> Top(stack).Spec.Name, branch |-> o.branch,
     walked |-> Walked(tokens),
     entry |-> o.entry, behaviour |-> o.behaviour, err |-> o.err, pre |-> stack,
     events |-> o.events, out |-> out, status |-> o.status, result |-> o.result,
     name |-> "", payload |-> Nil,
     afterPush |-> FALSE, prePush |-> stack]

\* WithMiddleware / UseMiddleware
UseMiddleware(mw) ==
    /\ pc = "setup"
    /\ Len(middleware) < MaxMiddleware
    /\ middleware' = Append(middleware, mw)
    /\ last' = Note("UseMiddleware", mw, Nil, "")
    /\ UNCHANGED <<regVars, stack, pc, concVars>>

\* Run is called.
Start ==
    /\ pc = "setup"
    /\ pc' = "running"
    /\ last' = Note("Run", "", Nil, "")
    /\ UNCHANGED <<regVars, stack, middleware, concVars>>

\* What Run prints for a processed line: what process wrote, then its error.
Printed(o) == IF o.err # "" THEN Append(o.out, Out("Error:", o.err, o.arg)) ELSE o.out

\* Where Run is after process returned o: reading the next line.
AfterLineStoppingOnError(o) ==
    IF o.panicked THEN "crashed" ELSE IF o.err # "" \/ o.status = StatusFailed THEN "stopped"
    ELSE "running"

\* Where Run is after process returned o: reading the next line, unless a
\* panic passed through process.
AfterLine(o) == IF o.panicked THEN "crashed" ELSE "running"

\* The effect of a processed line.
Processed(tokens, o) ==
    /\ stack' = o.stack
    /\ pc' = AfterLine(o)
    /\ last' = LineNote(tokens, o, Printed(o))

\* One turn of Run's loop with a line read: an empty line is skipped, an exit
\* verb ends the loop, any other line is processed and its error printed.
ReadLine(tokens, b) ==
    /\ pc = "running"
    /\ (Len(tokens) >= 2 /\ tokens[1] = "ctx" /\ tokens[2] = "push") => Len(stack) < MaxDepth
    /\ (\E i \in 1..Len(b.calls) : b.calls[i].call = "PushContext") => Len(stack) < MaxDepth
    /\ IF Len(tokens) = 0
       THEN /\ last' = LineNote(tokens, Outcome("empty", ZeroEntry, BNone, "", "", stack,
                                                <<>>, <<>>), <<>>)
            /\ UNCHANGED <<stack, pc>>
       ELSE IF ExitRequested(tokens[1])
       THEN /\ last' = LineNote(tokens, Outcome("exit", ZeroEntry, BNone, "", "", stack,
                                                <<>>, <<>>),
                                <<Out("print", "Shutting down.", "")>>)
            /\ pc' = "stopped"
            /\ UNCHANGED stack
       ELSE Processed(tokens, Process(tokens, b))
    /\ UNCHANGED <<regVars, middleware, concVars>>

\* ArgsParser.Parse called with the token list and the spec at hand.
ParseCall ==
    /\ last.op = "ParseInput"
    /\ last' = [op |-> "Parse", raw |-> last.raw, spec |-> last.spec,
                result |-> Parse(CharsOf(last.raw), last.spec)]
    /\ UNCHANGED <<regVars, stack, engVars, concVars>>

\* Readline returns an error: interrupt, end of input, or a failure of the reader.
ReaderEnds ==
    /\ pc = "running"
    /\ pc' = "stopped"
    /\ last' = Note("ReaderEnds", "", Nil, "")
    /\ UNCHANGED <<regVars, stack, middleware, concVars>>

\* Prompt returns the prompt for the frame: ctx is what Current() returned.
PromptText(ctx, base) ==
    LET name == Chars(ctx.Spec.Name)
        prompt == IF ctx.Spec.Prompt = ""
                  THEN base \o name \o <<">", " ">>
                  ELSE ReplaceAll(ReplaceAll(Chars(ctx.Spec.Prompt), Chars("{base}"), base),
                                  Chars("{context}"), name)
    IN  IF ctx.Spec.Name = "" THEN base ELSE prompt

\* Prompt(base) is called.
Prompt(base) ==
    /\ last' = [op |-> "Prompt", base |-> base,
                result |-> PromptText(stack[Len(stack)], Chars(base))]
    /\ UNCHANGED <<regVars, stack, engVars, concVars>>

----------------------------------------------------------------------------
\* The v1 loop of package tui: contexts and commands in package variables,
\* one line handled at a time.

TuiContextNames == {"servers", "db"}
TuiCommandNames == {"list", "ctx"}

\* RegisterContext(name, description)
TuiRegisterContext(name) ==
    /\ last.op # "tuiExit"
    /\ tuiContexts' = IF MapHas(tuiContexts, name) THEN tuiContexts
                      ELSE MapPut(tuiContexts, name, {})
    /\ last' = [op |-> "tuiRegisterContext", name |-> name]
    /\ UNCHANGED <<regVars, stack, engVars, mu, threads, tasks, handles, settings,
                   currentCtx>>

\* RegisterCommand(ctxName, cmd)
TuiRegisterCommand(ctxName, cmd) ==
    /\ last.op # "tuiExit"
    /\ tuiContexts' = MapPut(tuiContexts, ctxName,
                             (IF MapHas(tuiContexts, ctxName) THEN tuiContexts[ctxName]
                              ELSE {}) \cup {cmd})
    /\ last' = [op |-> "tuiRegisterCommand", name |-> ctxName]
    /\ UNCHANGED <<regVars, stack, engVars, mu, threads, tasks, handles, settings,
                   currentCtx>>

isExitCommand(cmd) == cmd \in {"q", "quit", "exit"}

NoCommand == [ctx |-> "", cmd |-> ""]
Handled(ctx, ran, args, said) == [currentCtx |-> ctx, ran |-> ran, args |-> args, said |-> said]

handleRootCommand(args) ==
    CASE args[1] = "clear" -> Handled(currentCtx, NoCommand, <<>>, "clear")
      [] args[1] \in {"help", "h", "?", "ls", "l"} ->
            Handled(currentCtx, NoCommand, <<>>, "help")
      [] OTHER ->
            IF MapHas(tuiContexts, args[1])
            THEN IF Len(args) = 1
                 THEN Handled(args[1], NoCommand, <<>>, "")
                 ELSE IF args[2] \in tuiContexts[args[1]]
                 THEN Handled(currentCtx, [ctx |-> args[1], cmd |-> args[2]],
                              SubSeq(args, 3, Len(args)), "")
                 ELSE Handled(currentCtx, NoCommand, <<>>, "Unknown command")
            ELSE IF args[1] \in tuiContexts[""]
            THEN Handled(currentCtx, [ctx |-> "", cmd |-> args[1]], Tail(args), "")
            ELSE Handled(currentCtx, NoCommand, <<>>, "Unknown command")

handleContextCommand(args) ==
    IF args[1] = "/" \/ (args[1] = "cd" /\ Len(args) > 1 /\ args[2] = "..")
    THEN Handled("", NoCommand, <<>>, "")
    ELSE IF args[1] \in {"help", "?", "h", "ls"}
    THEN Handled(currentCtx, NoCommand, <<>>, "help")
    ELSE IF args[1] \in tuiContexts[currentCtx]
    THEN Handled(currentCtx, [ctx |-> currentCtx, cmd |-> args[1]], Tail(args), "")
    ELSE Handled(currentCtx, NoCommand, <<>>, "Unknown command")

\* The lines typed, as strings.Fields splits them; the empty line has no fields.
TuiLines ==
    {<<>>, <<"servers">>, <<"db">>, <<"/">>, <<"ctx", "..">>, <<"cd", "..">>, <<"cd">>,
     <<"list">>, <<"servers", "list">>, <<"servers", "nosuch">>, <<"help">>, <<"clear">>,
     <<"ctx">>, <<"nosuch">>, <<"q">>}

\* One turn of Run's loop: the line is read, an exit command ends the loop,
\* any other line goes to the handler of the current context.
RunLine(args) ==
    /\ last.op # "tuiExit"
    /\ IF args = <<>>
       THEN /\ last' = [op |-> "tuiLine", args |-> args, pre |-> currentCtx,
                        ran |-> NoCommand, passed |-> <<>>, said |-> ""]
            /\ UNCHANGED currentCtx
       ELSE IF isExitCommand(args[1])
       THEN /\ last' = [op |-> "tuiExit", args |-> args, pre |-> currentCtx,
                        ran |-> NoCommand, passed |-> <<>>, said |-> "Shutting down."]
            /\ UNCHANGED currentCtx
       ELSE LET h == IF currentCtx = "" THEN handleRootCommand(args)
                     ELSE handleContextCommand(args)
            IN  /\ currentCtx' = h.currentCtx
                /\ last' = [op |-> "tuiLine", args |-> args, pre |-> currentCtx,
                            ran |-> h.ran, passed |-> h.args, said |-> h.said]
    /\ UNCHANGED <<regVars, stack, engVars, mu, threads, tasks, handles, settings,
                   tuiContexts>>

NextTui ==
    \/ \E name \in TuiContextNames : TuiRegisterContext(name)
    \/ \E ctxName \in TuiContextNames \cup {""}, cmd \in TuiCommandNames :
          TuiRegisterCommand(ctxName, cmd)
    \/ \E args \in TuiLines : RunLine(args)

\* Locks and callers before any concurrent call is made.

LockNames == {"registry", "stack", "tasks", "engine"}
FreeLock == [w |-> 0, r |-> {}, pending |-> {}]
Callers == 1..MaxThreads
Idle == [op |-> "idle", code |-> <<>>, res |-> Nil]

\* Every lock free, every caller outside the library, no task spawned, the
\* prompt and the writers as NewEngine sets them.
Quiet ==
    /\ mu = [l \in LockNames |-> FreeLock]
    /\ threads = [t \in Callers |-> Idle]
    /\ tasks = EmptyMap
    /\ handles = {}
    /\ settings = [promptBase |-> "> ", outputWriter |-> "os.Stdout",
                   taskOutput |-> "os.Stdout"]
    /\ tuiContexts = MapPut(EmptyMap, "", {})
    /\ currentCtx = ""

----------------------------------------------------------------------------
\* Calls made concurrently. A call is the list of the steps its code takes:
\* taking and releasing a lock, and the statements in between, one step each.

Lock(l) == [k |-> "Lock", l |-> l]
RLock(l) == [k |-> "RLock", l |-> l]
Unlock(l) == [k |-> "Unlock", l |-> l]
RUnlock(l) == [k |-> "RUnlock", l |-> l]
Do(f, arg) == [k |-> "Do", f |-> f, arg |-> arg]
Return == [k |-> "Return"]
CallOf(op, arg, code) == [op |-> op, arg |-> arg, code |-> code, res |-> Nil]

\* The elements of a set as a slice, in some order.
RECURSIVE InOrder(_)
InOrder(S) ==
    IF S = {} THEN <<>>
    ELSE LET x == CHOOSE y \in S : TRUE IN <<x>> \o InOrder(S \ {x})

\* r.commands[ctx][key] = entry, the inner map made when it is not there.
PutKey(cmds, entry, key) ==
    LET ctx == entry.Spec.Context
        old == IF MapHas(cmds, ctx) THEN cmds[ctx] ELSE EmptyMap
    IN  MapPut(cmds, ctx, MapPut(old, key, entry))

\* RegisterCommand: the lock, the store under the name, one store for each
\* alias, the deferred unlock.
RegisterCommandSteps(entry) ==
    <<Lock("registry"), Do("putKey", [entry |-> entry, key |-> entry.Spec.Name])>>
        \o [i \in 1..Cardinality(entry.Spec.Aliases) |->
               Do("putKey", [entry |-> entry, key |-> InOrder(entry.Spec.Aliases)[i]])]
        \o <<Unlock("registry"), Return>>

UnregisterCommandSteps(ctx, name) ==
    <<Lock("registry"), Do("delKey", [ctx |-> ctx, name |-> name]),
      Unlock("registry"), Return>>

\* RegisterContext: the lock, the store of the spec, one store for each alias.
RegisterContextSteps(spec) ==
    <<Lock("registry"), Do("putContext", spec)>>
        \o [i \in 1..Cardinality(spec.Aliases) |->
               Do("putAlias", [alias |-> InOrder(spec.Aliases)[i], name |-> spec.Name])]
        \o <<Unlock("registry"), Return>>

ResolveSteps(ctx, name) ==
    <<RLock("registry"), Do("resolve", [ctx |-> ctx, name |-> name]),
      RUnlock("registry"), Return>>

CommandsSteps(ctx, includeHidden) ==
    <<RLock("registry"), Do("commands", [ctx |-> ctx, includeHidden |-> includeHidden]),
      RUnlock("registry"), Return>>

\* Context: the read lock, the lookup in r.aliases, the lookup in r.contexts.
ContextSteps(name) ==
    <<RLock("registry"), Do("canonical", [name |-> name]), Do("context", [name |-> name]),
      RUnlock("registry")>>

\* The calls made into the registry from several goroutines.
RegistryCalls ==
    {CallOf("RegisterCommand", e, RegisterCommandSteps(e)) : e \in {ListEntry, ShowEntry}}
    \cup {CallOf("RegisterContext", c, RegisterContextSteps(c)) : c \in CtxSpecs}
    \cup {CallOf("Resolve", [ctx |-> "servers", name |-> n], ResolveSteps("servers", n)) :
             n \in {"list", "ls"}}
    \cup {CallOf("UnregisterCommand", [ctx |-> "servers", name |-> "ls"],
                 UnregisterCommandSteps("servers", "ls")),
          CallOf("Commands", [ctx |-> "servers"], CommandsSteps("servers", TRUE)),
          CallOf("Context", [name |-> "srv"], ContextSteps("srv") \o <<Return>>)}

\* Navigate: the empty name is PopToRoot; otherwise registry.Context returns
\* before the stack lock is taken.
PopToRootSteps == <<Lock("stack"), Do("popToRoot", [x |-> Nil]), Unlock("stack"), Return>>

\* A Navigate that looks the context up after it has locked the stack.
NavigateStepsLookupUnderLock(name, payload) ==
    <<Lock("stack")>> \o ContextSteps(name)
        \o <<Do("checkFound", [name |-> name]), Do("navigate", [payload |-> payload]),
             Unlock("stack"), Return>>

NavigateSteps(name, payload) ==
    IF name = "" THEN PopToRootSteps
    ELSE ContextSteps(name)
           \o <<Do("checkFound", [name |-> name]), Lock("stack"),
                Do("navigate", [payload |-> payload]), Unlock("stack"), Return>>

PushSteps(name, payload) ==
    ContextSteps(name)
        \o <<Do("checkFound", [name |-> name]), Lock("stack"),
             Do("push", [payload |-> payload]), Unlock("stack"), Return>>

PopSteps == <<Lock("stack"), Do("pop", [x |-> Nil]), Unlock("stack"), Return>>

CurrentSteps == <<RLock("stack"), Do("top", [x |-> Nil]), RUnlock("stack")>>

\* Prompt: Current() has returned before the template is filled in.
PromptSteps(base) == CurrentSteps \o <<Do("prompt", [base |-> base]), Return>>

\* updateStatus
UpdateStatusSteps(id, status, err) ==
    <<Lock("tasks"), Do("setStatus", [id |-> id, status |-> status, err |-> err]),
      Unlock("tasks")>>

\* The goroutine of a task up to the call of fn; what follows depends on what
\* fn returns.
GoroutineSteps(id) ==
    UpdateStatusSteps(id, "running", Nil) \o <<Do("fn", [id |-> id])>>

\* Spawn: the table entry is made under the lock, the goroutine is started
\* after the unlock, and the handle is returned.
SpawnSteps(name) ==
    <<Lock("tasks"), Do("newTask", [name |-> name]), Unlock("tasks"),
      Do("go", [x |-> Nil]), Return>>

\* Cancel: the lookup under the lock, handle.cancel() after the unlock.
CancelSteps(id) ==
    <<Lock("tasks"), Do("lookupTask", [id |-> id]), Unlock("tasks"),
      Do("cancel", [id |-> id]), Return>>

TasksSteps == <<RLock("tasks"), Do("copyAll", [x |-> Nil]), RUnlock("tasks"), Return>>

DescribeTaskSteps(id) ==
    <<RLock("tasks"), Do("copyOne", [id |-> id]), RUnlock("tasks"), Return>>

SetPromptSteps(prompt) ==
    <<Lock("engine"), Do("setPrompt", [prompt |-> prompt]), Unlock("engine"), Return>>

\* TaskManager.SetOutputChannel: the supervisor's output channel is replaced;
\* the method takes no lock.
SetOutputChannelSteps == <<Do("setChannel", [x |-> Nil])>>

\* SetOutputWriter: the writer is swapped and handed to the task manager
\* while e.mu is held.
SetOutputWriterSteps(w) ==
    <<Lock("engine"), Do("setWriter", [w |-> w])>>
        \o SetOutputChannelSteps \o <<Unlock("engine"), Return>>

\* sync.RWMutex: Lock is granted when nobody holds the lock; RLock when no
\* writer holds it and none waits for it.
CanLock(m) == m.w = 0 /\ m.r = {}
CanRLockWhileWritten(m) == TRUE
CanRLock(m) == m.w = 0 /\ m.pending = {}

Next1(t) == threads[t].code[1]
Busy(t) == threads[t].code # <<>>
Advance(t) == [threads EXCEPT ![t].code = Tail(@)]

\* What a statement does: the registry, the stack, the task table, the
\* handles, the settings after it, what the call has in hand, the steps it
\* has left, and the goroutines it starts.
Same(t) ==
    [commands |-> commands, contexts |-> contexts, aliases |-> aliases,
     stack |-> stack, tasks |-> tasks, handles |-> handles, settings |-> settings,
     res |-> threads[t].res, code |-> Tail(threads[t].code), go |-> <<>>]

RegistryEffects(t, f, arg) ==
    CASE f = "putKey" ->
            {[Same(t) EXCEPT !.commands = PutKey(commands, arg.entry, arg.key)]}
      [] f = "delKey" ->
            {[Same(t) EXCEPT !.commands = DelCommand(commands, arg.ctx, arg.name)]}
      [] f = "putContext" ->
            {[Same(t) EXCEPT !.contexts = PutContext(contexts, arg)]}
      [] f = "putAlias" ->
            {[Same(t) EXCEPT !.aliases = MapPut(aliases, arg.alias, arg.name)]}
      [] f = "resolve" ->
            {[Same(t) EXCEPT !.res = Resolve(arg.ctx, arg.name)]}
      [] f = "commands" ->
            {[Same(t) EXCEPT !.res = r] : r \in CommandsResults(arg.ctx, arg.includeHidden)}
      [] f = "canonical" ->
            {[Same(t) EXCEPT !.res = IF MapHas(aliases, arg.name) THEN aliases[arg.name] ELSE arg.name]}
      [] f = "context" ->
            {[Same(t) EXCEPT !.res =
                IF MapHas(contexts, threads[t].res)
                THEN [ok |-> TRUE, spec |-> contexts[threads[t].res]]
                ELSE [ok |-> FALSE, spec |-> ZeroContextSpec]]}

StackSteps == {"checkFound", "navigate", "push", "pop", "popToRoot", "top", "prompt"}

StackEffects(t, f, arg) ==
    CASE f = "checkFound" ->
            {IF threads[t].res.ok THEN Same(t)
             ELSE [Same(t) EXCEPT !.res = ErrUnknownContext, !.code = <<Return>>]}
      [] f = "navigate" ->
            {[Same(t) EXCEPT !.stack = NavigateStack(stack, threads[t].res.spec, arg.payload),
                             !.res = ""]}
      [] f = "push" ->
            {[Same(t) EXCEPT !.stack = PushStack(stack, threads[t].res.spec, arg.payload),
                             !.res = ""]}
      [] f = "pop" ->
            {IF Len(stack) <= 1 THEN [Same(t) EXCEPT !.res = ErrAtRoot]
             ELSE [Same(t) EXCEPT !.stack = PopStack(stack), !.res = ""]}
      [] f = "popToRoot" ->
            {[Same(t) EXCEPT !.stack = PopToRootStack(stack), !.res = ""]}
      [] f = "top" ->
            {[Same(t) EXCEPT !.res = stack[Len(stack)]]}
      [] f = "prompt" ->
            {[Same(t) EXCEPT !.res = PromptText(threads[t].res, Chars(arg.base))]}

\* TaskStatus
TaskPending == "pending"
TaskRunning == "running"
TaskSucceeded == "succeeded"
TaskFailed == "failed"
TaskCancelled == "cancelled"
Terminal == {TaskSucceeded, TaskFailed, TaskCancelled}

\* A TaskHandle; cancelled stands for the cancel function having been called.
\* The task "task-n" is kept under n.
NewHandle(id, name) ==
    [ID |-> id, Name |-> name, Status |-> TaskPending, Error |-> Nil, cancelled |-> FALSE]

\* copy := *t
CopyOf(h) == [live |-> FALSE, id |-> h.ID, copy |-> h]

\* The pointer kept in m.tasks.
PointerTo(id) == [live |-> TRUE, id |-> id, copy |-> NewHandle(id, "")]

\* What fn may return, and the status the goroutine records for it.
FnOutcomes(id) ==
    {[status |-> TaskSucceeded, err |-> Nil], [status |-> TaskFailed, err |-> "boom"]}
        \cup (IF tasks[id].cancelled
              THEN {[status |-> TaskCancelled, err |-> "context canceled"]} ELSE {})

\* A Cancel that writes the status itself.
CancelMarks(tbl, id) == [tbl EXCEPT ![id].cancelled = TRUE, ![id].Status = TaskCancelled]

\* handle.cancel()
CancelTask(tbl, id) == [tbl EXCEPT ![id].cancelled = TRUE]

TaskSteps == {"newTask", "go", "fn", "setStatus", "lookupTask", "cancel", "copyAll", "copyOne"}

TaskEffects(t, f, arg) ==
    CASE f = "newTask" ->
            {[Same(t) EXCEPT
                !.tasks = MapPut(tasks, Cardinality(DOMAIN tasks) + 1,
                                 NewHandle(Cardinality(DOMAIN tasks) + 1, arg.name)),
                !.res = Cardinality(DOMAIN tasks) + 1]}
      [] f = "go" ->
            {[Same(t) EXCEPT
                !.go = <<[id |-> MaxThreads + threads[t].res,
                          call |-> CallOf("task", [id |-> threads[t].res],
                                          GoroutineSteps(threads[t].res))]>>]}
      [] f = "fn" ->
            {[Same(t) EXCEPT !.code = UpdateStatusSteps(arg.id, o.status, o.err)] :
                o \in FnOutcomes(arg.id)}
      [] f = "setStatus" ->
            {IF MapHas(tasks, arg.id)
             THEN [Same(t) EXCEPT !.tasks = [tasks EXCEPT ![arg.id].Status = arg.status,
                                                          ![arg.id].Error = arg.err]]
             ELSE Same(t)}
      [] f = "lookupTask" ->
            {[Same(t) EXCEPT !.res = MapHas(tasks, arg.id)]}
      [] f = "cancel" ->
            {IF threads[t].res
             THEN [Same(t) EXCEPT !.tasks = CancelTask(tasks, arg.id)]
             ELSE Same(t)}
      [] f = "copyAll" ->
            {[Same(t) EXCEPT !.res = {CopyOf(tasks[i]) : i \in DOMAIN tasks}]}
      [] f = "copyOne" ->
            {[Same(t) EXCEPT !.res = IF MapHas(tasks, arg.id)
                                     THEN {CopyOf(tasks[arg.id])} ELSE {}]}

\* TaskManager.SetOutputChannel
SetOutputChannel(st) == [st EXCEPT !.taskOutput = st.outputWriter]

EngineSteps == {"setPrompt", "setWriter", "setChannel"}

EngineEffects(t, f, arg) ==
    CASE f = "setPrompt" ->
            {[Same(t) EXCEPT !.settings = [settings EXCEPT !.promptBase = arg.prompt]]}
      [] f = "setWriter" ->
            {[Same(t) EXCEPT
                !.settings = [settings EXCEPT
                                !.outputWriter = IF arg.w = Nil THEN "os.Stdout" ELSE arg.w],
                !.res = settings.outputWriter]}
      [] f = "setChannel" ->
            {[Same(t) EXCEPT !.settings = SetOutputChannel(settings)]}

RegistrySteps == {"putKey", "delKey", "putContext", "putAlias", "resolve", "commands",
                  "canonical", "context"}

Effects(t, f, arg) ==
    CASE f \in RegistrySteps -> RegistryEffects(t, f, arg)
      [] f \in StackSteps -> StackEffects(t, f, arg)
      [] f \in TaskSteps -> TaskEffects(t, f, arg)
      [] f \in EngineSteps -> EngineEffects(t, f, arg)

\* Spawn calls that have not yet made their table entry.
SpawnsUnderway ==
    {u \in DOMAIN threads : /\ threads[u].op = "Spawn"
                            /\ Busy(u)
                            /\ Len(threads[u].code) >= Len(SpawnSteps("")) - 1}

\* The handles a call hands to its caller.
Handed(t) ==
    CASE threads[t].op = "Spawn" -> {PointerTo(threads[t].res)}
      [] threads[t].op \in {"Tasks", "DescribeTask"} -> threads[t].res
      [] OTHER -> handles

\* A goroutine calls into the library.
Call(t, c) ==
    /\ ~Busy(t)
    /\ c.op = "Spawn" => Cardinality(DOMAIN tasks) + Cardinality(SpawnsUnderway) < MaxTasks
    /\ threads' = [threads EXCEPT ![t] = c]
    /\ UNCHANGED <<regVars, stack, last, engVars, tuiVars, mu, tasks, handles, settings>>

\* Lock, first half: the writer makes itself known, which holds later readers off.
Announce(t) ==
    /\ Busy(t) /\ Next1(t).k = "Lock"
    /\ t \notin mu[Next1(t).l].pending
    /\ mu' = [mu EXCEPT ![Next1(t).l].pending = @ \cup {t}]
    /\ UNCHANGED <<regVars, stack, last, engVars, tuiVars, threads, tasks, handles, settings>>

\* Lock, second half: the writer gets the lock.
AcquireWrite(t) ==
    /\ Busy(t) /\ Next1(t).k = "Lock"
    /\ t \in mu[Next1(t).l].pending
    /\ CanLock(mu[Next1(t).l])
    /\ mu' = [mu EXCEPT ![Next1(t).l] = [w |-> t, r |-> {}, pending |-> @.pending \ {t}]]
    /\ threads' = Advance(t)
    /\ UNCHANGED <<regVars, stack, last, engVars, tuiVars, tasks, handles, settings>>

\* RLock
AcquireRead(t) ==
    /\ Busy(t) /\ Next1(t).k = "RLock"
    /\ CanRLock(mu[Next1(t).l])
    /\ mu' = [mu EXCEPT ![Next1(t).l].r = @ \cup {t}]
    /\ threads' = Advance(t)
    /\ UNCHANGED <<regVars, stack, last, engVars, tuiVars, tasks, handles, settings>>

\* Unlock and RUnlock. The histories of registered commands are brought up to
\* date when a RegisterCommand or UnregisterCommand lets go of the lock.
Release(t) ==
    /\ Busy(t) /\ Next1(t).k \in {"Unlock", "RUnlock"}
    /\ mu' = [mu EXCEPT ![Next1(t).l] =
                 IF Next1(t).k = "Unlock" THEN [@ EXCEPT !.w = 0]
                 ELSE [@ EXCEPT !.r = @ \ {t}]]
    /\ threads' = Advance(t)
    /\ registered' = IF threads[t].op = "RegisterCommand"
                     THEN registered \cup {threads[t].arg} ELSE registered
    /\ live' = IF threads[t].op = "RegisterCommand"
               THEN {e \in live : e.Spec.Context # threads[t].arg.Spec.Context
                                  \/ Keys(e.Spec) \cap Keys(threads[t].arg.Spec) = {}}
                        \cup {threads[t].arg}
               ELSE live
    /\ UNCHANGED <<contexts, aliases, commands, stack, last, engVars, tuiVars, tasks, handles,
                   settings>>

\* A statement between the lock operations.
Work(t) ==
    /\ Busy(t) /\ Next1(t).k = "Do"
    /\ \E e \in Effects(t, Next1(t).f, Next1(t).arg) :
          /\ commands' = e.commands
          /\ contexts' = e.contexts
          /\ aliases' = e.aliases
          /\ stack' = e.stack
          /\ tasks' = e.tasks
          /\ handles' = e.handles
          /\ settings' = e.settings
          /\ threads' = [n \in DOMAIN threads \cup {g.id : g \in {e.go[i] : i \in 1..Len(e.go)}} |->
                           IF n = t THEN [threads[t] EXCEPT !.res = e.res, !.code = e.code]
                           ELSE IF n \in DOMAIN threads THEN threads[n]
                           ELSE (CHOOSE g \in {e.go[i] : i \in 1..Len(e.go)} : g.id = n).call]
    /\ UNCHANGED <<registered, live, last, engVars, tuiVars, mu>>

\* The call returns to its caller.
Returns(t) ==
    /\ Busy(t) /\ Next1(t).k = "Return"
    /\ threads' = [threads EXCEPT ![t] = Idle]
    /\ handles' = Handed(t)
    /\ UNCHANGED <<regVars, stack, last, engVars, tuiVars, mu, tasks, settings>>

----------------------------------------------------------------------------
\* The state after NewEngine(): the registry holds the root context and the two
\* built-in commands, the stack holds the root frame.

Init ==
    /\ contexts = MapPut(EmptyMap, "", RootSpec)
    /\ aliases = EmptyMap
    /\ commands = PutCommand(PutCommand(EmptyMap, HelpEntry), TasksEntry)
    /\ stack = <<NewFrame(RootSpec, Nil)>>
    /\ last = [op |-> "init", name |-> "", payload |-> Nil, err |-> "",
               pre |-> <<NewFrame(RootSpec, Nil)>>, afterPush |-> FALSE,
               prePush |-> <<NewFrame(RootSpec, Nil)>>]
    /\ registered = {HelpEntry, TasksEntry}
    /\ live = {HelpEntry, TasksEntry}
    /\ middleware = <<"RecoveryMiddleware">>
    /\ pc = "setup"
    /\ Quiet

\* The state after an application registered its contexts and commands with a
\* new engine: contexts servers and logs, commands list and pipe under servers.
InitInvoke ==
    /\ contexts = PutContext(PutContext(MapPut(EmptyMap, "", RootSpec), ServersSpec), LogsSpec)
    /\ aliases = PutAliases(EmptyMap, ServersSpec)
    /\ commands = PutCommand(PutCommand(PutCommand(PutCommand(EmptyMap, HelpEntry),
                                                   TasksEntry), ListEntry), PipeEntry)
    /\ stack = <<NewFrame(RootSpec, Nil)>>
    /\ last = [op |-> "init", name |-> "", payload |-> Nil, err |-> "",
               pre |-> <<NewFrame(RootSpec, Nil)>>, afterPush |-> FALSE,
               prePush |-> <<NewFrame(RootSpec, Nil)>>]
    /\ registered = {HelpEntry, TasksEntry, ListEntry, PipeEntry}
    /\ live = {HelpEntry, TasksEntry, ListEntry, PipeEntry}
    /\ middleware = <<"RecoveryMiddleware">>
    /\ pc = "setup"
    /\ Quiet

\* The context manager driven directly, with contexts being registered meanwhile.
NextNav ==
    \/ \E s \in CtxSpecs : RegisterContext(s)
    \/ \E n \in NavNames, p \in Payloads : Navigate(n, p)
    \/ \E n \in NavNames, p \in Payloads : Push(n, p)
    \/ Pop
    \/ PopToRoot
    \/ WriteState

SpecNav == Init /\ [][NextNav]_vars

\* The registry driven directly.
NextReg ==
    \/ \E f \in Factories : RegisterCommand(f)
    \/ \E u \in UnregisterPairs : UnregisterCommand(u[1], u[2])

SpecReg == Init /\ [][NextReg]_vars

\* The registry called from several goroutines at once.
NextRegistryThreads ==
    \/ \E t \in Callers, c \in RegistryCalls : Call(t, c)
    \/ \E t \in DOMAIN threads : Announce(t)
    \/ \E t \in DOMAIN threads : AcquireWrite(t)
    \/ \E t \in DOMAIN threads : AcquireRead(t)
    \/ \E t \in DOMAIN threads : Work(t)
    \/ \E t \in DOMAIN threads : Release(t)
    \/ \E t \in DOMAIN threads : Returns(t)

SpecRegistryThreads == Init /\ [][NextRegistryThreads]_vars

SpecTui == Init /\ [][NextTui]_vars

\* Calls into the registry, the context manager, the task manager and the
\* engine's setters from several goroutines at once.
LockCalls ==
    {CallOf("RegisterContext", ServersSpec, RegisterContextSteps(ServersSpec)),
     CallOf("Navigate", [name |-> "srv"], NavigateSteps("srv", Nil)),
     CallOf("Pop", [name |-> ""], PopSteps),
     CallOf("Prompt", [name |-> "app"], PromptSteps("app")),
     CallOf("Spawn", [name |-> "job"], SpawnSteps("job")),
     CallOf("Cancel", [id |-> 1], CancelSteps(1)),
     CallOf("SetOutputWriter", [name |-> "pipe"], SetOutputWriterSteps("pipe"))}

NextLocks ==
    \/ \E t \in Callers, c \in LockCalls : Call(t, c)
    \/ \E t \in DOMAIN threads : Announce(t)
    \/ \E t \in DOMAIN threads : AcquireWrite(t)
    \/ \E t \in DOMAIN threads : AcquireRead(t)
    \/ \E t \in DOMAIN threads : Work(t)
    \/ \E t \in DOMAIN threads : Release(t)
    \/ \E t \in DOMAIN threads : Returns(t)

SpecLocks == Init /\ [][NextLocks]_vars

\* The task manager called from several goroutines while the tasks run.
TaskCalls ==
    {CallOf("Spawn", [name |-> "job"], SpawnSteps("job")),
     CallOf("Tasks", [name |-> ""], TasksSteps)}
    \cup {CallOf("Cancel", [id |-> i], CancelSteps(i)) : i \in 1..MaxTasks}
    \cup {CallOf("DescribeTask", [id |-> i], DescribeTaskSteps(i)) : i \in 1..MaxTasks}

NextTasks ==
    \/ \E t \in Callers, c \in TaskCalls : Call(t, c)
    \/ \E t \in DOMAIN threads : Announce(t)
    \/ \E t \in DOMAIN threads : AcquireWrite(t)
    \/ \E t \in DOMAIN threads : AcquireRead(t)
    \/ \E t \in DOMAIN threads : Work(t)
    \/ \E t \in DOMAIN threads : Release(t)
    \/ \E t \in DOMAIN threads : Returns(t)

SpecTasks == Init /\ [][NextTasks]_vars

\* Callers working on what Current() and Stack() returned while the stack changes.
NextCopies ==
    \/ \E s \in CtxSpecs : RegisterContext(s)
    \/ \E n \in NavNames, p \in Payloads : Navigate(n, p)
    \/ \E n \in NavNames, p \in Payloads : Push(n, p)
    \/ Pop
    \/ WriteState
    \/ \E p \in Payloads : SetPayload(p)
    \/ \E i \in 1..MaxDepth : ReplaceElement(i)
    \/ \E i \in 1..MaxDepth : WriteStackState(i)

SpecCopies == Init /\ [][NextCopies]_vars

\* The context manager asked for its prompt while the stack changes.
NextPrompt ==
    \/ \E s \in PromptCtxSpecs : RegisterContext(s)
    \/ \E n \in NavNames, p \in Payloads : Navigate(n, p)
    \/ \E n \in NavNames, p \in Payloads : Push(n, p)
    \/ Pop
    \/ \E b \in Bases : Prompt(b)

SpecPrompt == Init /\ [][NextPrompt]_vars

\* Contexts being registered and registered again.
NextContexts == \E s \in RegistrableSpecs : RegisterContext(s)

SpecContexts == Init /\ [][NextContexts]_vars

\* The registry being listed while commands are registered and unregistered.
NextListing ==
    \/ \E f \in ListingFactories : RegisterCommand(f)
    \/ \E u \in UnregisterPairs : UnregisterCommand(u[1], u[2])
    \/ \E c \in ListingContexts, h \in BOOLEAN : Commands(c, h)

SpecListing == Init /\ [][NextListing]_vars

\* The engine: registrations and middleware before Run, then the loop.
Next ==
    \/ \E s \in EngineCtxSpecs : pc = "setup" /\ RegisterContext(s)
    \/ \E f \in EngineFactories : pc = "setup" /\ RegisterCommand(f)
    \/ UseMiddleware("TimingMiddleware")
    \/ Start
    \/ \E t \in Lines, b \in Behaviours : ReadLine(t, b)
    \/ ReaderEnds

Spec == Init /\ [][Next]_vars

\* The invocation pipeline: middleware before Run, then lines that invoke
\* commands of every behaviour.
NextInvoke ==
    \/ \E mw \in Middlewares : UseMiddleware(mw)
    \/ Start
    \/ \E t \in InvokeLines : \E b \in BehavioursFor(t) : ReadLine(t, b)
    \/ ReaderEnds

SpecInvoke == InitInvoke /\ [][NextInvoke]_vars

\* The argument parser called directly, on any token list and spec.
InitParse ==
    /\ contexts = MapPut(EmptyMap, "", RootSpec)
    /\ aliases = EmptyMap
    /\ commands = PutCommand(PutCommand(EmptyMap, HelpEntry), TasksEntry)
    /\ stack = <<NewFrame(RootSpec, Nil)>>
    /\ last \in {[op |-> "ParseInput", raw |-> raw, spec |-> spec] :
                    raw \in TokenLists, spec \in ParseSpecs}
    /\ registered = {HelpEntry, TasksEntry}
    /\ live = {HelpEntry, TasksEntry}
    /\ middleware = <<"RecoveryMiddleware">>
    /\ pc = "setup"
    /\ Quiet

NextParse == ParseCall

SpecParse == InitParse /\ [][NextParse]_vars

\* The argument parser called on specs that declare defaults, required and
\* hidden parameters.
InitDefaults ==
    /\ contexts = MapPut(EmptyMap, "", RootSpec)
    /\ aliases = EmptyMap
    /\ commands = PutCommand(PutCommand(EmptyMap, HelpEntry), TasksEntry)
    /\ stack = <<NewFrame(RootSpec, Nil)>>
    /\ last \in {[op |-> "ParseInput", raw |-> raw, spec |-> spec] :
                    raw \in DefaultsTokenLists, spec \in DefaultsSpecs}
    /\ registered = {HelpEntry, TasksEntry}
    /\ live = {HelpEntry, TasksEntry}
    /\ middleware = <<"RecoveryMiddleware">>
    /\ pc = "setup"
    /\ Quiet

SpecDefaults == InitDefaults /\ [][NextParse]_vars

\* The argument parser called on specs whose positionals are declared in an
\* order the documentation forbids.
InitStructure ==
    /\ contexts = MapPut(EmptyMap, "", RootSpec)
    /\ aliases = EmptyMap
    /\ commands = PutCommand(PutCommand(EmptyMap, HelpEntry), TasksEntry)
    /\ stack = <<NewFrame(RootSpec, Nil)>>
    /\ last \in {[op |-> "ParseInput", raw |-> raw, spec |-> spec] :
                    raw \in DefaultsTokenLists, spec \in StructureSpecs}
    /\ registered = {HelpEntry, TasksEntry}
    /\ live = {HelpEntry, TasksEntry}
    /\ middleware = <<"RecoveryMiddleware">>
    /\ pc = "setup"
    /\ Quiet

SpecStructure == InitStructure /\ [][NextParse]_vars

\* The argument parser called on lists with single-dash tokens.
InitShorthand ==
    /\ contexts = MapPut(EmptyMap, "", RootSpec)
    /\ aliases = EmptyMap
    /\ commands = PutCommand(PutCommand(EmptyMap, HelpEntry), TasksEntry)
    /\ stack = <<NewFrame(RootSpec, Nil)>>
    /\ last \in {[op |-> "ParseInput", raw |-> raw, spec |-> spec] :
                    raw \in ShorthandTokenLists, spec \in ParseSpecs}
    /\ registered = {HelpEntry, TasksEntry}
    /\ live = {HelpEntry, TasksEntry}
    /\ middleware = <<"RecoveryMiddleware">>
    /\ pc = "setup"
    /\ Quiet

SpecShorthand == InitShorthand /\ [][NextParse]_vars

----------------------------------------------------------------------------
\* Properties of the context manager (SpecNav).

IsNavOp == last.op \in {"Navigate", "Push", "Pop", "PopToRoot"}
\* The canonical name of a context name: the alias table first, the name itself otherwise.
Canonical(name) == IF name \in DOMAIN aliases THEN aliases[name] ELSE name

\* C1: after any sequence of Push, Pop, PopToRoot and Navigate calls, succeeding
\* or failing, the stack has at least one frame and its first frame is the root
\* frame (context name "").
C1_RootFrameAlways ==
    /\ Len(stack) >= 1
    /\ stack[1].Spec.Name = ""
    /\ stack[1].Spec = RootSpec

C1_Witness ==
    /\ last.op = "Pop"
    /\ last.err = ErrAtRoot
    /\ \E n \in DOMAIN contexts : n # ""

\* C2: a successful Navigate(name, payload) with a non-empty name leaves exactly
\* [root, F], F being a frame of the canonical context of name with empty local
\* state and the given payload, whatever the depth before; Navigate("") leaves
\* what PopToRoot leaves, the root frame alone.
C2_NavigateReplaces ==
    last.op = "Navigate" =>
        IF last.name = ""
        THEN last.err = "" /\ stack = <<last.pre[1]>>
        ELSE last.err = "" =>
                /\ Len(stack) = 2
                /\ stack[1] = last.pre[1]
                /\ stack[1].Spec.Name = ""
                /\ stack[2].Spec = contexts[Canonical(last.name)]
                /\ stack[2].Spec.Name = Canonical(last.name)
                /\ stack[2].State = EmptyMap
                /\ stack[2].Payload = last.payload

C2_Witness ==
    /\ last.op = "Navigate"
    /\ last.err = ""
    /\ last.name = "srv"
    /\ last.payload = "p1"
    /\ Len(last.pre) = 3
    /\ stack[2].Spec.Name = "db"

\* C3: a failing navigation changes nothing. Pop on a single-frame stack returns
\* an error; Push and Navigate with a name that is neither a registered context
\* nor an alias return "unknown context"; in each case the stack is exactly the
\* stack before the call.
C3_FailuresChangeNothing ==
    /\ (last.op = "Pop" /\ Len(last.pre) = 1) => last.err = ErrAtRoot
    /\ (last.op \in {"Push", "Navigate"}
            /\ last.name \notin (DOMAIN contexts) \cup (DOMAIN aliases))
        => last.err = ErrUnknownContext
    /\ (IsNavOp /\ last.err # "") => stack = last.pre

C3_Witness ==
    /\ last.op = "Navigate"
    /\ last.err = ErrUnknownContext
    /\ Len(stack) = 3
    /\ stack[3].Payload = "p1"
    /\ MapHas(stack[2].State, "k")

\* C4: a successful Push(name, payload) appends exactly one frame, with empty
\* local state and the given payload, and leaves the frames below unchanged; a
\* Pop directly after it succeeds and restores the stack as it was before the Push.
C4_PushThenPop ==
    /\ (last.op = "Push" /\ last.err = "") =>
            /\ Len(stack) = Len(last.pre) + 1
            /\ SubSeq(stack, 1, Len(last.pre)) = last.pre
            /\ Top(stack).Spec = contexts[Canonical(last.name)]
            /\ Top(stack).State = EmptyMap
            /\ Top(stack).Payload = last.payload
    /\ (last.op = "Pop" /\ last.afterPush) =>
            /\ last.err = ""
            /\ stack = last.prePush

C4_Witness ==
    /\ last.op = "Pop"
    /\ last.afterPush
    /\ Len(stack) = 2
    /\ stack[2].Payload = "p1"
    /\ MapHas(stack[2].State, "k")

\* C5: PopToRoot never fails and leaves the root frame alone, from any stack; on
\* a stack that is already the root frame alone it changes nothing.
C5_PopToRoot ==
    last.op = "PopToRoot" =>
        /\ last.err = ""
        /\ Len(stack) = 1
        /\ stack = <<last.pre[1]>>
        /\ stack[1].Spec.Name = ""
        /\ (Len(last.pre) = 1 => stack = last.pre)

C5_Witness ==
    /\ last.op = "PopToRoot"
    /\ Len(last.pre) = 3

----------------------------------------------------------------------------
\* Properties of the registry (SpecReg).

\* C6 as stated: in every reachable registry state, every command that was
\* registered resolves under its name and under each alias, in its context, to
\* its own spec.
C6_EveryRegisteredResolves ==
    \A e \in registered : \A x \in Keys(e.Spec) :
        /\ Resolve(e.Spec.Context, x).ok
        /\ Resolve(e.Spec.Context, x).entry.Spec = e.Spec

\* C6 amended: every registered command none of whose keys was since stored
\* again by a later registration in its context or removed by UnregisterCommand
\* resolves under its name and under each alias to its own entry.
C6_IntactRegisteredResolves ==
    \A e \in live : \A x \in Keys(e.Spec) :
        /\ Resolve(e.Spec.Context, x).ok
        /\ Resolve(e.Spec.Context, x).entry = e
        /\ Resolve(e.Spec.Context, x).entry.Spec = e.Spec

C6_Witness ==
    /\ last.op = "RegisterCommand"
    /\ \E e \in live : e.Spec.Name = "list" /\ "ls" \in e.Spec.Aliases
    /\ \E e \in registered \ live : e.Spec.Name = "show"

\* C7: Resolve(C, token) finds an entry only when a command was registered with
\* owning context exactly C under that name or alias; a token known only in the
\* root context or in another context is not found in C.
C7_ResolveOwnContextOnly ==
    \A c \in CmdContexts : \A k \in CmdKeys :
        Resolve(c, k).ok =>
            /\ Resolve(c, k).entry.Spec.Context = c
            /\ k \in Keys(Resolve(c, k).entry.Spec)
            /\ Resolve(c, k).entry \in registered

C7_Witness ==
    /\ Resolve("servers", "list").ok
    /\ Resolve("", "servers").ok
    /\ ~Resolve("", "list").ok
    /\ ~Resolve("servers", "tasks").ok
    /\ ~Resolve("servers", "servers").ok
    /\ ~Resolve("srv", "list").ok

\* The verbs process handles itself, and the branch of process that handles each.
BuiltinBranch(token) ==
    CASE token \in {"help", "?", "h", "ls"} -> "help"
      [] token = "contexts" -> "contexts"
      [] token = "ctx" -> "ctx"
      [] token \in {"back", ".."} -> "back"
      [] token = "/" -> "root"
      [] token = "history" -> "history"
      [] OTHER -> ""

IsLine == last.op = "Line" /\ Len(last.tokens) > 0

\* A line that reached the command branch ran a command's factory or parser;
\* every other branch leaves all commands alone.
NoCommandTouched == last.events = <<>> /\ last.entry = ZeroEntry

\* The order of process for the first token t of the last line, where
\* entersContext says which tokens count as a context to enter from root.
PrecedenceHolds(entersContext) ==
    IsLine =>
        LET t == last.tokens[1]
            r == Resolve(last.ctx, t)
        IN  IF t \in {"exit", "quit", "q"}
            THEN last.branch = "exit" /\ NoCommandTouched /\ pc = "stopped"
            ELSE IF BuiltinBranch(t) # ""
            THEN last.branch = BuiltinBranch(t) /\ NoCommandTouched
            ELSE IF last.ctx = "" /\ entersContext
            THEN /\ last.branch = "enter"
                 /\ NoCommandTouched
                 /\ stack = <<last.pre[1], NewFrame(Context(t).spec, Nil)>>
            ELSE IF r.ok
            THEN last.branch = "command" /\ last.entry = r.entry
            ELSE last.branch = "unknown" /\ NoCommandTouched /\ stack = last.pre

\* C8 as stated: a built-in verb (help/?/h/ls, contexts, ctx, back/.., /,
\* history, exit/quit/q) is handled as the built-in even when the current context
\* has a command of that name; otherwise, at root only, a token naming a
\* registered context or any context alias navigates into that context, even
\* when a root command of that name exists; only otherwise is the token resolved
\* as a command of the current context.
C8_PrecedenceAnyContextName ==
    PrecedenceHolds(IsLine /\ Context(last.tokens[1]).ok)

\* C8 amended: the same order, where the tokens that navigate from root are the
\* names and aliases of the registered contexts other than root; a token that is
\* an alias of the root context is resolved as a command.
C8_PrecedenceNonRootContext ==
    PrecedenceHolds(IsLine /\ Context(last.tokens[1]).ok
                           /\ Context(last.tokens[1]).spec.Name # "")

C8_Witness ==
    /\ IsLine
    /\ last.tokens = <<"servers">>
    /\ last.ctx = ""
    /\ Resolve("", "servers").ok
    /\ Context("servers").ok
    /\ last.branch = "enter"
    /\ Top(stack).Spec.Name = "servers"

\* The registrations of the walk: context servers with alias srv, and the
\* command list under servers.
WalkRegistered ==
    /\ MapHas(contexts, "servers")
    /\ contexts["servers"] = ServersSpec
    /\ MapHas(aliases, "srv")
    /\ aliases["srv"] = "servers"
    /\ Resolve("servers", "list").ok
    /\ Resolve("servers", "list").entry = ListEntry

\* C9: with context servers (alias srv) and command list under servers
\* registered, from root the line `servers` makes servers the current context,
\* the line `srv` does the same with the canonical name in the frame, a following
\* line `list` resolves to the command registered under servers and invokes it,
\* and a following line `/` makes root the current context again.
C9_ServersWalk ==
    (last.op = "Line" /\ WalkRegistered) =>
        /\ last.walked = 1 =>
              /\ stack = <<last.pre[1], NewFrame(ServersSpec, Nil)>>
              /\ Top(stack).Spec.Name = "servers"
              /\ last.err = ""
        /\ last.walked = 2 =>
              /\ last.ctx = "servers"
              /\ last.branch = "command"
              /\ last.entry = ListEntry
              /\ last.entry.Spec.Context = "servers"
              /\ last.err = ""
              /\ \E i \in 1..Len(last.events) : last.events[i] = Event("call", "Factory.New")
        /\ last.walked = 3 =>
              /\ Len(stack) = 1
              /\ Top(stack).Spec.Name = ""
              /\ last.err = ""

C9_Witness ==
    /\ last.op = "Line"
    /\ WalkRegistered
    /\ last.walked = 3
    /\ last.tokens = <<"/">>
    /\ Top(last.pre).Spec.Name = "servers"
    /\ Top(stack).Spec.Name = ""

\* The parse error of the last line, "" when its arguments parse.
LastParseError == Parse(CharsOf(Tail(last.tokens)), last.entry.Spec).err

----------------------------------------------------------------------------
\* Properties of the invocation pipeline (SpecInvoke).

\* The last line resolved a command and its arguments parsed: invoke went on
\* to make the runtime and call the handler chain.
IsInvocation == IsLine /\ last.branch = "command" /\ last.events # <<>>

\* How often the event e happened in the last invocation.
Count(e) == Cardinality({i \in 1..Len(last.events) : last.events[i] = e})

\* Execute of the command ran and its result is what the chain returned.
CommandReturned ==
    /\ IsInvocation
    /\ Count(Event("call", "Execute")) > 0
    /\ last.behaviour.panic = "none"
    /\ last.result = last.behaviour.result

\* The NavigateTo calls the command made on its runtime handle.
HandleRequests ==
    {i \in 1..Len(last.behaviour.calls) : last.behaviour.calls[i].call = "NavigateTo"}

\* The frame Navigate builds for a registered context name.
FrameOf(name, payload) == NewFrame(Context(name).spec, payload)

\* The stack after the PushContext and PopContext calls of calls[i..], made runs
\* times over, and nothing else.
RECURSIVE DirectStack(_, _, _, _)
DirectStack(stk, calls, i, runs) ==
    IF runs = 0 THEN stk
    ELSE IF i > Len(calls) THEN DirectStack(stk, calls, 1, runs - 1)
    ELSE LET c == calls[i]
             next == CASE c.call = "PushContext" -> PushResult(stk, c.name, c.payload).stack
                       [] c.call = "PopContext" -> PopResult(stk).stack
                       [] OTHER -> stk
         IN DirectStack(next, calls, i + 1, runs)

Direct == DirectStack(last.pre, last.behaviour.calls, 1, Count(Event("call", "Execute")))

\* C11: a result with status failed, set explicitly or implied by an attached
\* error when the status was left empty, leads to no Navigate (the stack is as
\* the command's own PushContext and PopContext calls left it), whatever next
\* context the result names and whatever NavigateTo asked for on the handle; a
\* status the command set is the status the engine acts on, so a result set to
\* success explicitly is followed even with an error attached.
C11_FailedNeverNavigates ==
    IsInvocation =>
        /\ last.result.Status # "" => last.status = last.result.Status
        /\ last.result.Status = "" =>
              last.status = IF last.result.Error.set THEN StatusFailed ELSE StatusSuccess
        /\ last.status = StatusFailed => stack = Direct
        /\ (CommandReturned /\ last.behaviour = BSuccessError) =>
              stack = <<last.pre[1], FrameOf("logs", Nil)>>

C11_Witness ==
    /\ CommandReturned
    /\ last.behaviour = BErrorNavigateTo
    /\ last.result.Status = ""
    /\ last.status = StatusFailed
    /\ Context("logs").ok
    /\ Top(stack).Spec.Name = "servers"
    /\ stack = last.pre

\* C12: when a command that did not fail called NavigateTo(A, p) on the handle
\* and returned a result naming next context B, the engine navigates to A with
\* payload p; the next context of the result, with the result's pipeline data
\* as payload, is used only when the handle made no request.
C12_HandleRequestWins ==
    (CommandReturned /\ last.status # StatusFailed) =>
        IF \E i \in HandleRequests :
                /\ \A j \in HandleRequests : j <= i
                /\ last.behaviour.calls[i].name # ""
        THEN \E i \in HandleRequests :
                LET c == last.behaviour.calls[i] IN
                /\ \A j \in HandleRequests : j <= i
                /\ IF Context(c.name).ok
                   THEN stack = <<last.pre[1], FrameOf(c.name, c.payload)>>
                   ELSE stack = last.pre
        ELSE IF last.result.NextContext # ""
        THEN stack = <<last.pre[1], FrameOf(last.result.NextContext, last.result.Pipeline)>>
        ELSE stack = last.pre

C12_Witness ==
    /\ CommandReturned
    /\ last.behaviour = BBoth
    /\ last.result.NextContext = "logs"
    /\ Context("logs").ok
    /\ stack = <<last.pre[1], NewFrame(ServersSpec, "p1")>>

\* C13 as stated: pipeline data returned by a command that did not fail is the
\* payload of the frame that is current after the invocation exactly when the
\* command's spec has AllowPipes and the result carries pipeline data; without
\* AllowPipes the returned data never becomes the payload of a frame.
C13_PipelineAttachedWhenPermitted ==
    (CommandReturned /\ last.status # StatusFailed /\ last.result.Pipeline # Nil) =>
        IF last.entry.Spec.AllowPipes
        THEN Top(stack).Payload = last.result.Pipeline
        ELSE \A i \in 1..Len(stack) :
                stack[i].Payload = last.result.Pipeline =>
                    i <= Len(last.pre) /\ last.pre[i] = stack[i]

\* The interceptors an invocation goes through before it reaches the one
\* registered k-th all call next.
Reaches(k) ==
    \A j \in 1..(k - 1) : j <= Len(middleware) =>
        middleware[j] \notin {"DenyMiddleware", "PanicMiddleware"}

\* A panic was raised in the last invocation: by an interceptor, by the
\* factory's New or by the command's Execute.
PanicRaised ==
    /\ IsInvocation
    /\ \/ \E k \in 1..Len(middleware) : middleware[k] = "PanicMiddleware" /\ Reaches(k)
       \/ Reaches(Len(middleware) + 1) /\ last.behaviour.panic # "none"

\* C14: a panic raised inside a command's Execute, inside its factory's New or
\* inside a middleware registered after the default one is caught by the
\* default outermost interceptor: it does not pass through process, so Run
\* goes on, and an error naming the command is written to the output.
C14_PanicsAreRecovered ==
    /\ pc # "crashed"
    /\ PanicRaised =>
          /\ pc = "running"
          /\ last.err = ""
          /\ \E i \in 1..Len(last.out) :
                last.out[i] = Out("ERROR", "command panicked", last.entry.Spec.Name)

C14_Witness ==
    /\ PanicRaised
    /\ middleware = <<"RecoveryMiddleware", "PanicMiddleware">>
    /\ last.entry = ListEntry
    /\ last.out = <<Out("ERROR", "command panicked", "list")>>
    /\ pc = "running"

\* C15: Run ends only on an exit verb or when the line reader ends; after an
\* unknown command, an unknown ctx action, a parse error, a failed command, a
\* failure to construct the command, a recovered panic or a navigation error
\* the loop goes on to read the next line.
C15_OnlyExitEndsRun ==
    /\ pc \in {"setup", "running", "stopped"}
    /\ pc = "stopped" =>
          \/ last.op = "ReaderEnds"
          \/ IsLine /\ ExitRequested(last.tokens[1]) /\ last.branch = "exit"
    /\ (last.op = "Line" /\ last.branch # "exit") => pc = "running"

\* The kinds of error after which the loop goes on.
ErrorKindOfLastLine ==
    IF ~IsLine THEN "none"
    ELSE IF last.branch = "unknown" THEN "unknown command"
    ELSE IF last.err = "unknown ctx action" THEN "unknown ctx action"
    ELSE IF last.branch = "command" /\ last.events = <<>> /\ last.err # "" THEN "parse error"
    ELSE IF last.branch = "ctx" /\ last.err = ErrUnknownContext THEN "navigation error"
    ELSE IF PanicRaised THEN "recovered panic"
    ELSE IF IsInvocation /\ last.result = FailedToCreate THEN "construction failure"
    ELSE IF IsInvocation /\ last.status = StatusFailed THEN "failed command"
    ELSE "none"

C15_Witness ==
    /\ ErrorKindOfLastLine = "construction failure"
    /\ last.behaviour = BNewErr
    /\ last.out = <<Out("ERROR", "failed to create command", "")>>
    /\ pc = "running"

\* The events of an invocation between making and releasing its scope.
Inner == SubSeq(last.events, 2, Len(last.events) - 1)

\* enter events of the interceptors registered i-th to j-th, in that order.
Enters(i, j) == [k \in 1..(j + 1 - i) |-> MwEvent("enter", middleware[i + k - 1], i + k - 1)]

\* leave events of the interceptors registered j-th down to i-th.
Leaves(i, j) == [k \in 1..(j + 1 - i) |-> MwEvent("leave", middleware[j + 1 - k], j + 1 - k)]

\* The calls of the innermost handler for the last invocation's behaviour.
CoreCalls ==
    IF last.behaviour.newErr \/ last.behaviour.panic = "new"
    THEN <<Event("call", "Factory.New")>>
    ELSE <<Event("call", "Factory.New"), Event("call", "Execute")>>

\* How many interceptors registered before the k-th call next twice.
RECURSIVE Doubling(_)
Doubling(k) ==
    IF k <= 1 THEN 1
    ELSE (IF middleware[k - 1] = "RetryMiddleware" THEN 2 ELSE 1) * Doubling(k - 1)

\* C16: an invocation enters the middleware in the order of registration, the
\* factory and Execute come last, and it returns through the middleware in
\* the reverse order; each call of next runs the rest of the chain once; when
\* a middleware returns without calling next, no later middleware, no factory
\* and no Execute runs, and its result is the result of the invocation.
C16_ChainOrder ==
    IsInvocation =>
        LET n == Len(middleware)
            single == \A k \in 1..n : middleware[k] # "RetryMiddleware"
        IN
        /\ last.events[1] = Event("scope", "WithCancel")
        /\ last.events[Len(last.events)] = Event("scope", "cancel")
        /\ (single /\ Reaches(n + 1) /\ last.behaviour.panic = "none") =>
              /\ Inner = Enters(1, n) \o CoreCalls \o Leaves(1, n)
              /\ last.result = IF last.behaviour.newErr THEN FailedToCreate
                               ELSE last.behaviour.result
        /\ \A k \in 1..n :
              (single /\ Reaches(k) /\ middleware[k] = "DenyMiddleware") =>
                  /\ Inner = Enters(1, k) \o Leaves(1, k)
                  /\ last.result = DeniedResult
        /\ \A k \in 1..n :
              (Reaches(k) /\ ~PanicRaised) =>
                  Count(MwEvent("enter", middleware[k], k)) = Doubling(k)
        /\ (Reaches(n + 1) /\ ~PanicRaised) =>
              Count(Event("call", "Factory.New")) = Doubling(n + 1)
        /\ \A k \in 1..n :
              middleware[k] \in {"DenyMiddleware", "PanicMiddleware"} =>
                  /\ Count(Event("call", "Factory.New")) = 0
                  /\ Count(Event("call", "Execute")) = 0
                  /\ \A i \in 1..Len(last.events) : last.events[i].at <= k

C16_Witness ==
    /\ IsInvocation
    /\ middleware = <<"RecoveryMiddleware", "TimingMiddleware">>
    /\ last.behaviour = BOk
    /\ last.events = <<Event("scope", "WithCancel"),
                       MwEvent("enter", "RecoveryMiddleware", 1),
                       MwEvent("enter", "TimingMiddleware", 2),
                       Event("call", "Factory.New"), Event("call", "Execute"),
                       MwEvent("leave", "TimingMiddleware", 2),
                       MwEvent("leave", "RecoveryMiddleware", 1),
                       Event("scope", "cancel")>>

----------------------------------------------------------------------------
\* Properties of the argument parser (SpecParse).

IsParse == last.op = "Parse"

\* The grammar of the token lists, read off the flags every spec here declares:
\* --count and -c take the next token as their value, --verbose and -v take none.
ValueTakers == {"--count", "-c"}
BareBools == {"--verbose", "-v"}
EqTokens == {"--count=3", "--count=x"}
IsFlagToken(t) == HasPrefix(Chars(t), <<"-">>) /\ Chars(t) # <<"-">>

\* The positions at which a token stands on its own, not as the value of a flag.
RECURSIVE ScanPositions(_, _)
ScanPositions(raw, i) ==
    IF i > Len(raw) THEN {}
    ELSE {i} \cup ScanPositions(raw, IF raw[i] \in ValueTakers THEN i + 2 ELSE i + 1)

\* The non-flag tokens standing on their own, in input order, as the parser sees them.
RECURSIVE PositionalsFrom(_, _)
PositionalsFrom(raw, i) ==
    IF i > Len(raw) THEN <<>>
    ELSE IF raw[i] \in ValueTakers THEN PositionalsFrom(raw, i + 2)
    ELSE IF IsFlagToken(raw[i]) THEN PositionalsFrom(raw, i + 1)
    ELSE <<Chars(raw[i])>> \o PositionalsFrom(raw, i + 1)
Positionals(raw) == PositionalsFrom(raw, 1)

\* Every flag of the list is declared and, if it takes a value, has a well-formed one.
WellFormedFlags(raw) ==
    \A i \in ScanPositions(raw, 1) :
        IsFlagToken(raw[i]) =>
            \/ raw[i] \in BareBools
            \/ raw[i] \in ValueTakers /\ i + 1 <= Len(raw) /\ Atoi(Chars(raw[i + 1])).ok

\* The list with the token at i taken out, and with it split at its "=".
Without(raw, i) == SubSeq(raw, 1, i - 1) \o SubSeq(raw, i + 1, Len(raw))
SplitAtEq(raw, i) ==
    SubSeq(raw, 1, i - 1) \o <<"--count", IF raw[i] = "--count=3" THEN "3" ELSE "x">>
        \o SubSeq(raw, i + 1, Len(raw))

\* C17 as stated: for a declared non-boolean flag the single token
\* --name=value is parsed exactly like the two tokens --name value: both
\* succeed or both fail, and on success both give the same values.
C17_EqualsFormLikeTwoTokens ==
    IsParse =>
        \A i \in ScanPositions(last.raw, 1) :
            last.raw[i] \in EqTokens =>
                LET two == Parse(CharsOf(SplitAtEq(last.raw, i)), last.spec) IN
                /\ (last.result.err = "") = (two.err = "")
                /\ last.result.err = "" =>
                      last.result.flags = two.flags /\ last.result.args = two.args

\* C18: a declared boolean flag given bare, as --name or as its shorthand, is
\* set to true and takes no further token: the rest of the list is parsed as
\* it is parsed without the flag.
C18_BareBoolTakesNoToken ==
    IsParse =>
        \A i \in ScanPositions(last.raw, 1) :
            last.raw[i] \in BareBools =>
                LET rest == Parse(CharsOf(Without(last.raw, i)), last.spec) IN
                /\ last.result.err = rest.err
                /\ last.result.err = "" =>
                      /\ last.result.args = rest.args
                      /\ last.result.flags = MapPut(rest.flags, Chars("verbose"), BoolVal(TRUE))

C18_Witness ==
    /\ IsParse
    /\ last.raw = <<"-v", "x">>
    /\ last.spec.Args = <<NameArg>>
    /\ last.result.err = ""
    /\ last.result.flags[Chars("verbose")] = BoolVal(TRUE)
    /\ last.result.args["name"] = StrVal(Chars("x"))

\* C19: non-flag tokens fill the declared positional slots in declaration
\* order; a repeatable last slot receives, as a list in input order, every
\* non-flag token no earlier slot took, also with flags in between; with no
\* repeatable slot a non-flag token beyond the declared slots makes Parse fail
\* with "unexpected argument".
C19_PositionalsInOrder ==
    (IsParse /\ WellFormedFlags(last.raw)) =>
        LET pos == Positionals(last.raw)
            decl == last.spec.Args
            n == Len(decl)
            rep == n > 0 /\ decl[n].Repeatable
            fixed == IF rep THEN n - 1 ELSE n
            got == last.result.args
        IN  IF ~rep /\ Len(pos) > n
            THEN last.result.err = "unexpected argument"
            ELSE /\ last.result.err = ""
                 /\ \A k \in 1..fixed :
                       IF k <= Len(pos)
                       THEN /\ MapHas(got, decl[k].Name)
                            /\ decl[k].Type = ArgTypeString => got[decl[k].Name] = StrVal(pos[k])
                       ELSE ~MapHas(got, decl[k].Name)
                 /\ rep =>
                       IF Len(pos) > fixed
                       THEN /\ MapHas(got, decl[n].Name)
                            /\ got[decl[n].Name] = ListVal(SubSeq(pos, fixed + 1, Len(pos)))
                       ELSE ~MapHas(got, decl[n].Name)

C19_Witness ==
    /\ IsParse
    /\ last.raw = <<"x", "web", "3">>
    /\ last.spec.Args = <<TagArg>>
    /\ last.result.err = ""
    /\ last.result.args["tag"] = ListVal(<<Chars("x"), Chars("web"), Chars("3")>>)

\* C20 as stated: a token bound to a positional of a typed kind is cast as a
\* flag value is: a token malformed for the kind, or outside the enum, makes
\* Parse return an error, and a well-formed token is stored as the typed value.
C20_PositionalsAreCast ==
    (IsParse /\ WellFormedFlags(last.raw)) =>
        LET pos == Positionals(last.raw)
            decl == last.spec.Args
        IN  \A k \in 1..Len(decl) :
                (k <= Len(pos) /\ ~decl[k].Repeatable /\ decl[k].Type # ArgTypeString) =>
                    LET c == CastValue(decl[k].Type, pos[k], decl[k].EnumValues) IN
                    IF c.err # "" THEN last.result.err # ""
                    ELSE last.result.err = "" => last.result.args[decl[k].Name] = c.val

----------------------------------------------------------------------------
\* Properties of the defaults Parse applies after the scan (SpecDefaults).

\* The flag of this long name stands on its own somewhere in the list.
Supplied(raw, name) ==
    \E i \in ScanPositions(raw, 1) : Chars(raw[i]) = <<"-", "-">> \o name

\* The scan of the list ends without an error: every --count has an integer
\* after it, and no non-flag token is beyond the declared positionals.
ScanSucceeds(raw, spec) ==
    /\ \A i \in ScanPositions(raw, 1) :
          raw[i] = "--count" => i + 1 <= Len(raw) /\ Atoi(Chars(raw[i + 1])).ok
    /\ \/ Len(spec.Args) > 0 /\ spec.Args[Len(spec.Args)].Repeatable
       \/ Len(Positionals(raw)) <= Len(spec.Args)

\* C21: after a scan without error, an unset positional that is required, has
\* no default and is not repeatable makes Parse fail with "missing required
\* argument"; when Parse succeeds, every unset positional with a default and
\* every unset non-hidden flag with a default holds that default, an unset
\* non-hidden boolean flag without a default holds false, and a hidden flag is
\* in the flag ValueSet exactly when it was supplied.
C21_DefaultsApplied ==
    (IsParse /\ ScanSucceeds(last.raw, last.spec)) =>
        LET pos == Positionals(last.raw)
            decl == last.spec.Args
            flags == last.spec.Flags
            res == last.result
            unset(k) == Len(pos) < k
        IN  /\ (\E k \in 1..Len(decl) :
                    /\ unset(k) /\ decl[k].Required
                    /\ decl[k].Default = NoValue /\ ~decl[k].Repeatable)
                  => res.err = "missing required argument"
            /\ res.err = "" =>
                  /\ \A k \in 1..Len(decl) :
                        (unset(k) /\ decl[k].Default # NoValue) =>
                            MapHas(res.args, decl[k].Name)
                                /\ res.args[decl[k].Name] = decl[k].Default
                  /\ \A j \in 1..Len(flags) :
                        LET f == flags[j]
                            given == Supplied(last.raw, f.Name)
                        IN  /\ f.Hidden => (MapHas(res.flags, f.Name) <=> given)
                            /\ (~f.Hidden /\ ~given /\ f.Default # NoValue) =>
                                  MapHas(res.flags, f.Name) /\ res.flags[f.Name] = f.Default
                            /\ (~f.Hidden /\ ~given /\ f.Default = NoValue
                                   /\ f.Type = ArgTypeBool) =>
                                  MapHas(res.flags, f.Name)
                                      /\ res.flags[f.Name] = BoolVal(FALSE)

\* Nothing supplied: the positional and the visible flags take their defaults,
\* the hidden flag that declares one stays out.
C21_Witness ==
    /\ IsParse
    /\ last.raw = <<>>
    /\ Len(last.spec.Args) = 1
    /\ last.spec.Args[1].Required /\ last.spec.Args[1].Default = StrVal(Chars("web"))
    /\ ~last.spec.Flags[1].Hidden /\ last.spec.Flags[1].Default = IntVal(12)
    /\ last.spec.Flags[2].Hidden /\ last.spec.Flags[2].Default = BoolVal(TRUE)
    /\ last.result.err = ""
    /\ last.result.args["name"] = StrVal(Chars("web"))
    /\ last.result.flags[Chars("count")] = IntVal(12)
    /\ ~MapHas(last.result.flags, Chars("secret"))

\* A required positional without default is left unset: Parse fails.
C21_WitnessMissing ==
    /\ IsParse
    /\ last.raw = <<"--secret">>
    /\ Len(last.spec.Args) = 1
    /\ last.spec.Args[1].Required /\ last.spec.Args[1].Default = NoValue
    /\ ~last.spec.Args[1].Repeatable
    /\ last.result.err = "missing required argument"

----------------------------------------------------------------------------
\* Re-parsing the flags of a result (SpecParse).

DigitChar(d) ==
    CASE d = 0 -> "0" [] d = 1 -> "1" [] d = 2 -> "2" [] d = 3 -> "3" [] d = 4 -> "4"
      [] d = 5 -> "5" [] d = 6 -> "6" [] d = 7 -> "7" [] d = 8 -> "8" [] d = 9 -> "9"

\* The decimal text of a natural number.
RECURSIVE Decimal(_)
Decimal(n) == IF n < 10 THEN <<DigitChar(n)>> ELSE Decimal(n \div 10) \o <<DigitChar(n % 10)>>

\* The text of a flag value.
Text(v) ==
    CASE v.type = "int" -> IF v.val < 0 THEN <<"-">> \o Decimal(0 - v.val) ELSE Decimal(v.val)
      [] v.type = "bool" ->
            IF v.val THEN <<"t", "r", "u", "e">> ELSE <<"f", "a", "l", "s", "e">>
      [] v.type = "string" -> v.val

\* The tokens --name=value of the flags a ValueSet holds, in declaration order.
RECURSIVE Reconstruction(_, _, _)
Reconstruction(values, decl, j) ==
    IF j > Len(decl) THEN <<>>
    ELSE (IF MapHas(values, decl[j].Name)
          THEN <<(<<"-", "-">> \o decl[j].Name \o <<"=">> \o Text(values[decl[j].Name]))>>
          ELSE <<>>) \o Reconstruction(values, decl, j + 1)

\* C22 as stated: after a successful Parse, parsing the tokens --name=value
\* rebuilt from its flag ValueSet against the same spec succeeds and gives the
\* same flag ValueSet.
C22_ReparseReproducesFlags ==
    (IsParse /\ last.result.err = "") =>
        LET again == Parse(Reconstruction(last.result.flags, last.spec.Flags, 1), last.spec)
        IN  again.err = "" /\ again.flags = last.result.flags

----------------------------------------------------------------------------
\* Properties of the listing of commands (SpecListing).

\* The entries stored under some key of the context.
StoredUnder(ctx) ==
    IF MapHas(commands, ctx) THEN {commands[ctx][k] : k \in DOMAIN commands[ctx]} ELSE {}

\* C23 as stated: Commands(C, includeHidden) returns the spec of each command
\* stored under C, whatever the number of keys it is stored under, exactly once
\* and in ascending order of name, leaving out the hidden ones unless
\* includeHidden is true.
C23_CommandsListsEachOnce ==
    last.op = "Commands" =>
        LET res == last.result
            expected == {e.Spec : e \in {x \in StoredUnder(last.ctx) :
                                             last.includeHidden \/ ~x.Spec.Hidden}}
        IN  /\ {res[i] : i \in 1..Len(res)} = expected
            /\ \A i, j \in 1..Len(res) : i < j =>
                  /\ res[i] # res[j]
                  /\ ~Less(Chars(res[j].Name), Chars(res[i].Name))

\* The same for a context in which no two stored entries share a name: this
\* part of the claim holds.
C23_DistinctNamesListedOnce ==
    (/\ last.op = "Commands"
     /\ \A a, b \in StoredUnder(last.ctx) : a.Spec.Name = b.Spec.Name => a = b)
        => C23_CommandsListsEachOnce

----------------------------------------------------------------------------
\* Properties of the registration of contexts (SpecContexts).

\* The spec the last RegisterContext stored.
JustRegistered == contexts[last.name]

\* C24 as stated: RegisterContext stores the spec under its name, and every
\* alias it lists then resolves to that name through Context and through
\* ResolveContextName, also an alias an earlier registration gave to another
\* context.
C24_EveryAliasResolves ==
    last.op = "RegisterContext" =>
        /\ JustRegistered.Name = last.name
        /\ \A a \in JustRegistered.Aliases :
              /\ Context(a) = [ok |-> TRUE, spec |-> JustRegistered]
              /\ ResolveContextName(a) = [ok |-> TRUE, name |-> last.name]

\* What a registration leaves alone: the other contexts, and the aliases it
\* does not list.
RegistrationKeepsTheRest ==
    last'.op = "RegisterContext" =>
        /\ DOMAIN contexts' = DOMAIN contexts \cup {last'.name}
        /\ \A n \in DOMAIN contexts : n # last'.name => contexts'[n] = contexts[n]
        /\ DOMAIN aliases' = DOMAIN aliases \cup contexts'[last'.name].Aliases
        /\ \A a \in DOMAIN aliases :
              a \notin contexts'[last'.name].Aliases => aliases'[a] = aliases[a]

\* C24 amended: RegisterContext stores the spec under its name and changes no
\* other context; every alias it lists then resolves to it through Context, and
\* to its name through ResolveContextName unless the alias is the empty string,
\* for which ResolveContextName answers the root context; an alias it does not
\* list keeps the context of the registration that listed it last.
C24_NonEmptyAliasResolves ==
    /\ [](last.op = "RegisterContext" =>
            /\ JustRegistered.Name = last.name
            /\ \A a \in JustRegistered.Aliases :
                  /\ Context(a) = [ok |-> TRUE, spec |-> JustRegistered]
                  /\ ResolveContextName(a) =
                        [ok |-> TRUE, name |-> IF a = "" THEN "" ELSE last.name])
    /\ [][RegistrationKeepsTheRest]_vars

\* db took the alias srv that servers had listed before.
C24_Witness ==
    /\ last.op = "RegisterContext"
    /\ last.name = "db"
    /\ MapHas(contexts, "servers") /\ "srv" \in contexts["servers"].Aliases
    /\ "srv" \in contexts["db"].Aliases
    /\ Context("srv").spec.Name = "db"
    /\ ResolveContextName("srv").name = "db"

----------------------------------------------------------------------------
\* Properties of the prompt (SpecPrompt).

\* The text in which every occurrence of a placeholder, found from the left in
\* the text as given, stands replaced by its value; what a value brings in is
\* not looked at again. subst maps placeholders to values.
RECURSIVE Substituted(_, _)
Substituted(text, subst) ==
    IF Len(text) = 0 THEN <<>>
    ELSE IF \E ph \in DOMAIN subst : HasPrefix(text, ph)
    THEN LET ph == CHOOSE x \in DOMAIN subst : HasPrefix(text, x)
         IN  subst[ph] \o Substituted(SubSeq(text, Len(ph) + 1, Len(text)), subst)
    ELSE <<text[1]>> \o Substituted(Tail(text), subst)

Current == stack[Len(stack)]

\* C25 as stated: Prompt(base) is base when the current context is root;
\* otherwise the template with each {base} replaced by base and each {context}
\* replaced by the context name, or, without a template, base followed by the
\* context name followed by "> ".
C25_PromptAsTemplateSays ==
    last.op = "Prompt" =>
        LET base == Chars(last.base)
            name == Chars(Current.Spec.Name)
        IN  last.result =
                IF Current.Spec.Name = "" THEN base
                ELSE IF Current.Spec.Prompt = "" THEN base \o name \o <<">", " ">>
                ELSE Substituted(Chars(Current.Spec.Prompt),
                                 (Chars("{base}") :> base) @@ (Chars("{context}") :> name))

\* C25 amended: the two placeholders are replaced one after the other, {base}
\* first and then {context} in what the first replacement gave, so that a
\* {context} brought in by base is replaced by the context name as well.
C25_PromptReplacesInTurn ==
    last.op = "Prompt" =>
        LET base == Chars(last.base)
            name == Chars(Current.Spec.Name)
        IN  last.result =
                IF Current.Spec.Name = "" THEN base
                ELSE IF Current.Spec.Prompt = "" THEN base \o name \o <<">", " ">>
                ELSE Substituted(Substituted(Chars(Current.Spec.Prompt),
                                             Chars("{base}") :> base),
                                 Chars("{context}") :> name)

\* In db, under the template with two {context}, the prompt for base app.
C25_Witness ==
    /\ last.op = "Prompt"
    /\ last.base = "app"
    /\ Len(stack) > 1
    /\ Current.Spec = DbAgainSpec
    /\ last.result = <<"d", "b", ":", "a", "p", "p", "d", "b">>

----------------------------------------------------------------------------
\* Properties of what Current() and Stack() hand out (SpecCopies).

CallerOps == {"WriteState", "WriteStackState", "SetPayload", "ReplaceElement"}

\* C26 as stated: whatever a caller does to a frame or slice that Current() or
\* Stack() returned (replacing a slice element, changing a frame's payload,
\* writing a key into a frame's local state), the manager's stack holds what it
\* held before.
C26_ReturnedCopiesAreDetached ==
    last.op \in CallerOps => stack = last.pre

----------------------------------------------------------------------------
\* C27: every Resolve, Commands and Context call sees the registry entirely
\* before or entirely after each registration. While a call is reading, no
\* registration has stored some of its keys and not yet the others, and the
\* registry does not change between the reads of one call; what Resolve has in
\* hand is what the registry holds; and a registration that lets go of the lock
\* leaves its entry under its name and every alias, whatever a concurrent
\* registration of the same key stored before.

Registrations == {"RegisterCommand", "RegisterContext"}
Lookups == {"Resolve", "Commands", "Context"}

\* The call has stored at least one key and has more statements to run.
HalfStored(u) ==
    /\ threads[u].op \in Registrations
    /\ Busy(u)
    /\ Next1(u).k = "Do"
    /\ \/ Next1(u).f = "putAlias"
       \/ Next1(u).f = "putKey" /\ Next1(u).arg.key # Next1(u).arg.entry.Spec.Name

\* The call is between its first read and its unlock.
Reading(t) ==
    /\ threads[t].op \in Lookups
    /\ Busy(t)
    /\ \/ Next1(t).k = "RUnlock"
       \/ Next1(t).k = "Do" /\ Next1(t).f = "context"

StoredWhole(entry) ==
    /\ MapHas(commands, entry.Spec.Context)
    /\ \A k \in Keys(entry.Spec) :
          /\ MapHas(commands[entry.Spec.Context], k)
          /\ commands[entry.Spec.Context][k] = entry

LookupsSeeWholeRegistrations ==
    \A t \in DOMAIN threads :
        /\ Reading(t) => \A u \in DOMAIN threads : ~HalfStored(u)
        /\ (threads[t].op = "Resolve" /\ Reading(t))
              => threads[t].res = Resolve(threads[t].arg.ctx, threads[t].arg.name)
        /\ (threads[t].op = "RegisterCommand" /\ Busy(t) /\ Next1(t).k = "Unlock")
              => StoredWhole(threads[t].arg)

RegistryStillWhileRead ==
    \A t \in DOMAIN threads :
        (Reading(t) /\ t \in DOMAIN threads' /\ Reading(t)')
            => UNCHANGED <<contexts, aliases, commands>>

C27_RegistryCallsAreAtomic ==
    [](LookupsSeeWholeRegistrations) /\ [][RegistryStillWhileRead]_vars

\* A lookup has read the registry while a registration of the same context
\* waits for the lock, and a registration has overwritten a key of another.
C27_Witness ==
    \E t, u \in DOMAIN threads :
        /\ threads[t].op = "Resolve" /\ Reading(t) /\ threads[t].res.ok
        /\ threads[u].op = "RegisterCommand"
        /\ u \in mu["registry"].pending
        /\ threads[t].res.entry # threads[u].arg
        /\ threads[t].arg.name \in Keys(threads[u].arg.Spec)

----------------------------------------------------------------------------
\* C28: no operation of the registry, the context manager, the task supervisor
\* or the engine takes or waits for a second lock while it holds one, and
\* whenever calls are in progress one of them can take its next step: no
\* interleaving of navigation, registration, lookup, task status updates and
\* engine setters deadlocks.

Held(t) == {l \in LockNames : mu[l].w = t \/ t \in mu[l].r}

Wanted(t) ==
    IF Busy(t) /\ Next1(t).k \in {"Lock", "RLock"} THEN {Next1(t).l} ELSE {}

CanStep(t) ==
    /\ Busy(t)
    /\ CASE Next1(t).k = "Lock" ->
               t \notin mu[Next1(t).l].pending \/ CanLock(mu[Next1(t).l])
         [] Next1(t).k = "RLock" -> CanRLock(mu[Next1(t).l])
         [] OTHER -> TRUE

----------------------------------------------------------------------------
\* C29: every TaskHandle that Spawn, Tasks or DescribeTask has handed to a
\* caller is a snapshot: what it shows does not change afterwards.

Shown(h) ==
    IF h.live THEN [Status |-> tasks[h.id].Status, Error |-> tasks[h.id].Error]
    ELSE [Status |-> h.copy.Status, Error |-> h.copy.Error]

HandlesKeepTheirValue ==
    \A h \in handles \cap handles' : Shown(h)' = Shown(h)

C29_HandlesAreSnapshots == [][HandlesKeepTheirValue]_vars

\* The handles of Tasks and DescribeTask are copies made under the read lock.
C29_ListedHandlesAreCopies ==
    \A t \in DOMAIN threads :
        (threads[t].op \in {"Tasks", "DescribeTask"} /\ Busy(t) /\ Next1(t).k = "Return")
            => \A h \in threads[t].res : ~h.live

----------------------------------------------------------------------------
\* C30: under every interleaving of Spawn, Cancel, Tasks and DescribeTask with
\* the tasks' goroutines, a task starts pending, and its status only moves
\* from pending to running and from running to one of succeeded, failed and
\* cancelled, where it stays.

StatusMoves ==
    \A i \in DOMAIN tasks' :
        IF i \in DOMAIN tasks
        THEN \/ tasks'[i].Status = tasks[i].Status
             \/ tasks[i].Status = TaskPending /\ tasks'[i].Status = TaskRunning
             \/ tasks[i].Status = TaskRunning /\ tasks'[i].Status \in Terminal
        ELSE tasks'[i].Status = TaskPending

C30_StatusOnlyMovesForward ==
    [](\A i \in DOMAIN tasks :
          tasks[i].Status \in {TaskPending, TaskRunning} \cup Terminal)
        /\ [][StatusMoves]_vars

\* A cancelled task has reached its terminal status while a caller still holds
\* a copy that shows it running, and another call is in progress.
C30_Witness ==
    \E h \in handles :
        /\ ~h.live
        /\ h.copy.Status = TaskRunning
        /\ tasks[h.id].Status = TaskCancelled
        /\ tasks[h.id].cancelled
        /\ \E t \in Callers : Busy(t)

----------------------------------------------------------------------------
\* C31: in the v1 loop, once a registered context has been entered by typing
\* its name at root, the line `/` and the line `ctx ..` each return the loop to
\* the root context.

ReturnLines == {<<"/">>, <<"ctx", "..">>}

C31_SlashAndCtxDotDotReturn ==
    (last.op = "tuiLine" /\ last.pre # "" /\ last.args \in ReturnLines)
        => currentCtx = ""

\* `/` does return to root.
C31_SlashReturns ==
    (last.op = "tuiLine" /\ last.pre # "" /\ last.args = <<"/">>) => currentCtx = ""

----------------------------------------------------------------------------
\* C32: a spec in which a repeatable positional is followed by a required
\* positional or by another repeatable positional is rejected: Parse returns
\* an error for every token list.

Misplaced(spec) ==
    \E i, j \in 1..Len(spec.Args) :
        /\ i < j
        /\ spec.Args[i].Repeatable
        /\ spec.Args[j].Required \/ spec.Args[j].Repeatable

C32_MisplacedRepeatableRejected ==
    (last.op = "Parse" /\ Misplaced(last.spec)) => last.result.err # ""

\* With a required positional that has no default after the repeatable one,
\* Parse does fail, with "missing required argument".
C32_RequiredWithoutDefaultFails ==
    (/\ last.op = "Parse"
     /\ \E i, j \in 1..Len(last.spec.Args) :
           /\ i < j
           /\ last.spec.Args[i].Repeatable
           /\ last.spec.Args[j].Required
           /\ last.spec.Args[j].Default = NoValue
           /\ ~last.spec.Args[j].Repeatable)
        => last.result.err # ""

----------------------------------------------------------------------------
\* C33: a token `-x` that the loop of Parse comes to, where x is the declared
\* shorthand of a flag, is parsed as `--name` in its place would be: the whole
\* result is the same, values, errors and the long name as key. A single-dash
\* token that is no declared shorthand makes Parse fail, with "unknown flag"
\* when it is the first token; and `-` is taken as a positional.

IsShortToken(token) ==
    /\ HasPrefix(token, <<"-">>)
    /\ ~HasPrefix(token, <<"-", "-">>)
    /\ token # <<"-">>

\* The positions at which the loop of Parse starts on a token, as long as no
\* flag fails.
RECURSIVE Examined(_, _, _)
Examined(raw, spec, i) ==
    IF i > Len(raw) THEN {}
    ELSE IF HasPrefix(raw[i], <<"-">>) /\ raw[i] # <<"-">>
    THEN LET declared == {n \in 1..Len(spec.Flags) :
                             \/ <<"-", "-">> \o spec.Flags[n].Name = raw[i]
                             \/ <<"-">> \o spec.Flags[n].Shorthand = raw[i]}
         IN  IF declared = {} THEN {i}
             ELSE LET flag == spec.Flags[CHOOSE n \in declared : TRUE] IN
                  IF flag.Type = ArgTypeBool THEN {i} \cup Examined(raw, spec, i + 1)
                  ELSE {i} \cup Examined(raw, spec, i + 2)
    ELSE {i} \cup Examined(raw, spec, i + 1)

\* The flags that declare the text after the dash as their shorthand.
DeclaredBy(token, spec) ==
    {n \in 1..Len(spec.Flags) : <<"-">> \o spec.Flags[n].Shorthand = token}

C33_ShorthandAsLongName ==
    last.op = "Parse" =>
        LET raw == CharsOf(last.raw) IN
        \A k \in Examined(raw, last.spec, 1) :
            /\ \A n \in DeclaredBy(raw[k], last.spec) :
                  last.result =
                      Parse([raw EXCEPT ![k] = <<"-", "-">> \o last.spec.Flags[n].Name],
                            last.spec)
            /\ (IsShortToken(raw[k]) /\ DeclaredBy(raw[k], last.spec) = {})
                  => /\ last.result.err # ""
                     /\ k = 1 => last.result.err = "unknown flag"
            /\ raw[k] = <<"-">>
                  => LET other == Parse([raw EXCEPT ![k] = <<"x">>], last.spec) IN
                     /\ last.result.err = other.err
                     /\ last.result.flags = other.flags
                     /\ DOMAIN last.result.args = DOMAIN other.args
                     /\ (Len(raw) = 1 /\ last.spec.Args = <<NameArg>>)
                           => /\ last.result.err = ""
                              /\ last.result.args["name"] = StrVal(<<"-">>)

\* `-c 3` has been parsed and the 3 is stored under count.
C33_Witness ==
    /\ last.op = "Parse"
    /\ Len(last.raw) = 3
    /\ last.raw[1] = "x" /\ last.raw[2] = "-c" /\ last.raw[3] = "3"
    /\ last.result.err = ""
    /\ MapHas(last.result.flags, Chars("count"))
    /\ last.result.flags[Chars("count")] = IntVal(3)

----------------------------------------------------------------------------
\* C34: an invocation that got past parsing makes its own cancellation scope
\* before anything else, the scope is cancelled exactly once, as the last thing
\* invoke does, and so never while Factory.New or Execute runs: on success, on a
\* failed result, on a construction failure, after a recovered panic and after
\* a navigation that failed.

ScopeEvents(ev) == {i \in 1..Len(last.events) : last.events[i] = Event("scope", ev)}

C34_ScopeCancelledAtReturn ==
    IsInvocation =>
        /\ ScopeEvents("WithCancel") = {1}
        /\ ScopeEvents("cancel") = {Len(last.events)}
        /\ \A i \in 1..Len(last.events) :
              last.events[i].ev = "call" => (1 < i /\ i < Len(last.events))

\* A command's failed result, a construction failure, a recovered panic and a
\* navigation to an unknown context have each ended with the scope cancelled.
C34_Witness ==
    /\ IsInvocation
    /\ last.behaviour = BNavigateNowhere
    /\ \E i \in 1..Len(last.out) : last.out[i] = Out("ERROR", ErrUnknownContext, "")
    /\ last.events[Len(last.events)] = Event("scope", "cancel")

C34_WitnessFailed ==
    /\ IsInvocation
    /\ last.behaviour \in {BFailedNext, BNewErr, BPanic}
    /\ last.events[Len(last.events)] = Event("scope", "cancel")

----------------------------------------------------------------------------
\* C35: at root, a line whose first token names a registered context or an
\* alias navigates into that context whatever tokens follow: nothing is
\* executed, nothing is written, and the stack is the root frame with a new
\* frame of that context on it. As amended: the token is not a built-in verb
\* and the context it names is not the root context.

BuiltinVerbs == {"help", "?", "h", "ls", "contexts", "ctx", "back", "..", "/", "history"}

EntersContextNamed(spec) ==
    /\ last.branch = "enter"
    /\ last.events = <<>>
    /\ last.out = <<>>
    /\ last.err = ""
    /\ stack = <<last.pre[1], NewFrame(spec, Nil)>>

NamesContextAtRoot ==
    /\ IsLine
    /\ last.ctx = ""
    /\ ~ExitRequested(last.tokens[1])
    /\ Context(last.tokens[1]).ok

C35_FirstTokenEntersAnyContext ==
    NamesContextAtRoot => EntersContextNamed(Context(last.tokens[1]).spec)

C35_FirstTokenEntersNonRootContext ==
    (/\ NamesContextAtRoot
     /\ last.tokens[1] \notin BuiltinVerbs
     /\ Context(last.tokens[1]).spec.Name # "")
        => EntersContextNamed(Context(last.tokens[1]).spec)

\* `srv list x` typed at root, with a root command `servers` and the command
\* `list` of servers registered: servers is entered, list is not run.
C35_Witness ==
    /\ IsLine
    /\ last.ctx = ""
    /\ last.tokens = <<"srv", "list", "x">>
    /\ Resolve("servers", "list").ok
    /\ Resolve("", "servers").ok
    /\ Top(stack).Spec.Name = "servers"
    /\ Len(stack) = 2

----------------------------------------------------------------------------
\* C36: when a command panics and the default interceptor recovers it, the
\* invocation's result is the empty result and its status is normalised to
\* success, not failed; a NavigateTo the command made on the runtime handle
\* before it panicked is applied to the stack.

CommandPanicked ==
    /\ IsInvocation
    /\ \/ last.behaviour.panic = "execute" /\ Count(Event("call", "Execute")) > 0
       \/ last.behaviour.panic = "new" /\ Count(Event("call", "Factory.New")) > 0

LastRequest == last.behaviour.calls[CHOOSE i \in HandleRequests : \A j \in HandleRequests : j <= i]

C36_RecoveredPanicCountsAsSuccess ==
    CommandPanicked =>
        /\ last.result = ZeroResult
        /\ last.status = StatusSuccess
        /\ (last.behaviour.panic = "execute" /\ HandleRequests # {} /\ LastRequest.name # "")
              => stack = NavigateResult(last.pre, LastRequest.name, LastRequest.payload).stack

\* A command of servers asked for logs and panicked: logs is the current context.
C36_Witness ==
    /\ CommandPanicked
    /\ last.behaviour = BNavigatePanic
    /\ last.ctx = "servers"
    /\ Top(stack) = NewFrame(LogsSpec, "p1")
    /\ Len(stack) = 2

----------------------------------------------------------------------------
\* C37: PushContext and PopContext called on the runtime handle change the
\* stack at once, and the change stays when the command then returns status
\* failed or panics; a failed status suppresses only the deferred transition
\* (NavigateTo or the result's next context).

DirectCalls ==
    {i \in 1..Len(last.behaviour.calls) :
        last.behaviour.calls[i].call \in {"PushContext", "PopContext"}}

C37_DirectChangesSurviveFailure ==
    (IsInvocation /\ Count(Event("call", "Execute")) > 0 /\ DirectCalls # {}) =>
        /\ last.status = StatusFailed => stack = Direct
        /\ (last.behaviour.panic = "execute" /\ HandleRequests = {}) => stack = Direct
        /\ stack # Direct =>
              /\ last.status = StatusSuccess
              /\ \E n \in {last.result.NextContext} \cup
                           {last.behaviour.calls[i].name : i \in HandleRequests} :
                    \E p \in Payloads \cup {Nil} : stack = NavigateResult(Direct, n, p).stack

\* A command of servers pushed logs, asked for servers and failed: logs stays on
\* top of servers.
C37_Witness ==
    /\ IsInvocation
    /\ last.behaviour = BPushFailed
    /\ last.status = StatusFailed
    /\ Count(Event("call", "Execute")) = 1
    /\ Len(last.pre) = 2
    /\ Len(stack) = 3
    /\ Top(stack) = NewFrame(LogsSpec, "p1")

\* A command of servers popped its context and panicked: root is current.
C37_WitnessPanic ==
    /\ IsInvocation
    /\ last.behaviour = BPopPanic
    /\ Count(Event("call", "Execute")) = 1
    /\ Len(last.pre) = 2
    /\ Len(stack) = 1

----------------------------------------------------------------------------
\* C38: UnregisterCommand(ctx, key) removes only the entry stored under key:
\* every other key of the registry, the command's other keys among them, keeps
\* resolving to what it resolved to, and the command is still listed by
\* Commands(ctx) while one of its keys remains.

\* The entry e of context ctx is in every listing Commands(ctx, includeHidden) can return.
Listed(e, ctx, includeHidden) ==
    \A r \in CommandsResults(ctx, includeHidden) : \E i \in 1..Len(r) : r[i] = e.Spec

\* No other entry stored in ctx has the name of e.
OnlyOneNamed(e, ctx) ==
    \A k \in DOMAIN commands[ctx] : commands[ctx][k].Spec.Name = e.Spec.Name => commands[ctx][k] = e

\* e is stored in ctx under a key other than key.
HasOtherKey(e, ctx, key) ==
    \E k \in CmdKeys \ {key} : Resolve(ctx, k).ok /\ Resolve(ctx, k).entry = e

UnregisterKeepsOtherKeys ==
    \A c \in CmdContexts, key \in CmdKeys :
        (last'.op = "UnregisterCommand" /\ last'.ctx = c /\ last'.name = key) =>
            /\ DOMAIN commands' = DOMAIN commands
            /\ \A x \in CmdContexts, k \in CmdKeys :
                  IF x = c /\ k = key THEN ~Resolve(x, k)'.ok
                  ELSE Resolve(x, k)' = Resolve(x, k)
            /\ \A e \in ListingFactories \cup Factories \cup {HelpEntry, TasksEntry} :
                  HasOtherKey(e, c, key) =>
                      \A h \in BOOLEAN :
                          /\ Listed(e, c, h) => Listed(e, c, h)'
                          /\ (OnlyOneNamed(e, c) /\ (h \/ ~e.Spec.Hidden)) => Listed(e, c, h)'

C38_UnregisterRemovesOneKey == [][UnregisterKeepsOtherKeys]_vars

\* list was unregistered by its canonical name: ls still resolves to it and it is listed.
C38_Witness ==
    /\ last.op = "UnregisterCommand"
    /\ last.ctx = "servers"
    /\ last.name = "list"
    /\ ~Resolve("servers", "list").ok
    /\ Resolve("servers", "ls").ok
    /\ Resolve("servers", "ls").entry = ListEntry
    /\ Listed(ListEntry, "servers", FALSE)

\* list was unregistered by its alias: the canonical name still resolves to it.
C38_WitnessAlias ==
    /\ last.op = "UnregisterCommand"
    /\ last.ctx = "servers"
    /\ last.name = "ls"
    /\ ~Resolve("servers", "ls").ok
    /\ Resolve("servers", "list").entry = ListEntry
    /\ Listed(ListEntry, "servers", FALSE)

----------------------------------------------------------------------------
\* C39: the deferred channel cannot ask for root. After a command that did not
\* fail, NavigateTo("") on the handle together with an empty next context in
\* the result leads to no Navigate: the stack is as the command left it; and
\* after NavigateTo("") a non-empty next context of the result is navigated
\* to, with the result's pipeline data as payload.

Requested == IF HandleRequests = {} THEN "" ELSE LastRequest.name

C39_EmptyNameIsNoRequest ==
    (CommandReturned /\ last.status # StatusFailed /\ Requested = "") =>
        IF last.result.NextContext = ""
        THEN stack = Direct
        ELSE stack = NavigateResult(Direct, last.result.NextContext, last.result.Pipeline).stack

\* A command of servers called NavigateTo(""): servers is still the current context.
C39_Witness ==
    /\ CommandReturned
    /\ last.behaviour = BNavigateRoot
    /\ last.status = StatusSuccess
    /\ Len(last.pre) = 2
    /\ stack = last.pre
    /\ Top(stack).Spec.Name = "servers"

\* A command of servers called NavigateTo("") and named logs in its result.
C39_WitnessResult ==
    /\ CommandReturned
    /\ last.behaviour = BEmptyThenResult
    /\ last.ctx = "servers"
    /\ stack = <<last.pre[1], NewFrame(LogsSpec, "p2")>>

----------------------------------------------------------------------------
\* Push with the empty name: contexts are registered, one of them with the
\* empty string among its aliases, frames are pushed and popped, the prompt is
\* asked for and process resolves a token in the current context.

DbEmptyAliasSpec == [DbSpec EXCEPT !.Aliases = {""}]
PushRootSpecs == {ServersSpec, DbEmptyAliasSpec}
PushRootTokens == {"tasks", "nosuch"}

\* process past the built-in verbs and the context names: the token is resolved
\* in the context named by the current frame.
ResolveInCurrent(token) ==
    /\ last' = [op |-> "process", token |-> token, ctx |-> Current.Spec.Name,
                found |-> Resolve(Current.Spec.Name, token).ok,
                entry |-> Resolve(Current.Spec.Name, token).entry, pre |-> stack]
    /\ UNCHANGED <<regVars, stack, engVars, concVars>>

NextPushRoot ==
    \/ \E s \in PushRootSpecs : RegisterContext(s)
    \/ \E n \in NavNames, p \in Payloads : Push(n, p)
    \/ Pop
    \/ \E b \in Bases : Prompt(b)
    \/ \E t \in PushRootTokens : ResolveInCurrent(t)

SpecPushRoot == Init /\ [][NextPushRoot]_vars

\* The current frame is a root-named frame above the bottom of the stack.
RootOnTop == Len(stack) > 1 /\ Current.Spec.Name = ""

\* What holds of a stack with a root-named frame on top.
ActsAsRoot ==
    /\ \A b \in Bases : PromptText(Current, Chars(b)) = Chars(b)
    /\ \A k \in CmdKeys : Resolve(Current.Spec.Name, k) = Resolve("", k)
    /\ PopResult(stack).err = ""
    /\ Len(PopResult(stack).stack) = Len(stack) - 1

\* C40 as stated: Push("") succeeds and puts a second root-named frame on top;
\* the stack then has more than one frame while the current context is root,
\* Prompt returns the base, commands resolve in the root context and Pop succeeds.
C40_PushEmptyPushesRoot ==
    /\ (last.op = "Push" /\ last.name = "") =>
          /\ last.err = ""
          /\ stack = Append(last.pre, NewFrame(contexts[""], last.payload))
          /\ RootOnTop
          /\ ActsAsRoot
    /\ (last.op = "Prompt" /\ RootOnTop) => last.result = Chars(last.base)
    /\ (last.op = "process" /\ RootOnTop) => last.ctx = ""
    /\ (last.op = "Pop" /\ last.afterPush) => (last.err = "" /\ stack = last.prePush)

\* C40, amended: Push("") always succeeds and adds one frame; the frame is a
\* second root-named frame unless a context was registered with the empty
\* string as an alias, in which case it is a frame of that context. With a
\* root-named frame on top the stack has more than one frame while the current
\* context is root, Prompt returns the base, commands resolve in the root
\* context, and Pop succeeds.
C40_PushEmptyPushesRootUnlessAliased ==
    /\ (last.op = "Push" /\ last.name = "") =>
          /\ last.err = ""
          /\ Len(stack) = Len(last.pre) + 1
          /\ SubSeq(stack, 1, Len(last.pre)) = last.pre
          /\ ~MapHas(aliases, "") =>
                /\ stack = Append(last.pre, NewFrame(contexts[""], last.payload))
                /\ RootOnTop
                /\ ActsAsRoot
          /\ (MapHas(aliases, "") /\ RootOnTop) => ActsAsRoot
    /\ (last.op = "Prompt" /\ RootOnTop) => last.result = Chars(last.base)
    /\ (last.op = "process" /\ RootOnTop) => last.ctx = ""
    /\ (last.op = "Pop" /\ last.afterPush) => (last.err = "" /\ stack = last.prePush)

\* Push("") on the stack [root, servers] with no alias "": root is current at depth 3.
C40_Witness ==
    /\ last.op = "Push"
    /\ last.name = ""
    /\ ~MapHas(aliases, "")
    /\ Len(last.pre) = 2
    /\ Len(stack) = 3
    /\ stack[2].Spec.Name = "servers"
    /\ Current.Spec.Name = ""
    /\ Current.Payload = "p1"

\* A token was resolved with a pushed root frame on top.
C40_WitnessResolve ==
    /\ last.op = "process"
    /\ RootOnTop
    /\ last.token = "tasks"
    /\ last.found
    /\ last.entry = TasksEntry

====
